---- MODULE Spec2Model ----
(***************************************************************************)
(* Task with Me (src/main.rs): the update loop of the iced application,   *)
(* the commands it hands to the async executor, and the three JSON        *)
(* documents (tasks.json, logs.json, config.json) those commands read and *)
(* write.                                                                  *)
(*                                                                         *)
(* The update loop handles one Message at a time.  Every Command::perform  *)
(* future runs on the executor's worker threads: its file reads and file   *)
(* writes are separate steps that interleave with the steps of the other   *)
(* futures and with the update loop.  Its result comes back as a Message.  *)
(*                                                                         *)
(* Strings are sequences of one-character strings.  Option<T> is <<>> for  *)
(* None and <<x>> for Some(x).  Uuid::new_v4() is a fresh number.          *)
(***************************************************************************)
EXTENDS Integers, Sequences, FiniteSets, Bags

\* ------------------------------------------------------------ bounds
\* Local::now() takes the values 1..MaxTime; the program starts at time 1.
MaxTime == 2
\* Messages the user sends (buttons pressed) over one run of the program.
MaxIntents == 2
\* Executions that complete with a result for a task of the list, when every
\* step of the persistence layer runs as soon as it can.
MaxExecs == 2
\* The same, when the steps of the persistence layer interleave freely.
MaxRacedExecs == 1
\* Notifications the user lets pile up before closing them.
MaxNotes == 1
\* Futures on the executor plus messages not yet handled.
MaxInFlight == 3
\* user Messages sent in the notification runs: one more than the queue holds
MaxNoteIntents == 11
\* the largest success_count and failure_count a stored task comes with
MaxCount == 10

\* ------------------------------------------------------------ program constants
NotificationCap == 10
DefaultRefreshInterval == 5
DefaultMaxLogs == 500
MinRefreshInterval == 1
MinMaxLogs == 10

\* ------------------------------------------------------------ strings
None == <<>>
Some(x) == <<x>>

DigitChars == <<"0", "1", "2", "3", "4", "5", "6", "7", "8", "9">>
IsDigit(c) == \E i \in 1..10 : DigitChars[i] = c
DigitVal(c) == (CHOOSE i \in 1..10 : DigitChars[i] = c) - 1

RECURSIVE DigitsValue(_)
DigitsValue(s) ==
    IF Len(s) = 0 THEN 0
    ELSE 10 * DigitsValue(SubSeq(s, 1, Len(s) - 1)) + DigitVal(s[Len(s)])

\* str::parse::<u64>() and str::parse::<usize>(): an optional "+", then one or
\* more decimal digits and nothing else (no sign "-", no blanks).  ParseErr
\* stands for Err(_).
ParseErr == -1
ParseUnsigned(s) ==
    LET body == IF Len(s) > 0 /\ s[1] = "+" THEN Tail(s) ELSE s
    IN  IF Len(body) = 0 \/ \E i \in 1..Len(body) : ~IsDigit(body[i])
        THEN ParseErr
        ELSE DigitsValue(body)

\* u64::to_string(): the decimal digits, no leading zeros.
RECURSIVE U64ToString(_)
U64ToString(n) ==
    IF n < 10 THEN <<DigitChars[n + 1]>>
    ELSE Append(U64ToString(n \div 10), DigitChars[(n % 10) + 1])

\* str::trim().is_empty()
TrimIsEmpty(s) == \A i \in 1..Len(s) : s[i] = " "

\* ------------------------------------------------------------ data
\* struct Task as the program holds it.
NewTask(id, title, command, interval, now) ==
    [id |-> id, title |-> title, command |-> command,
     interval_seconds |-> interval, is_active |-> FALSE,
     last_run |-> None, next_run |-> None, created_at |-> now,
     success_count |-> 0, failure_count |-> 0, last_output |-> <<>>]

\* serde: last_output is #[serde(skip)]: it is not written, and reading a
\* record fills it with String::default().
TaskToJson(t) ==
    [id |-> t.id, title |-> t.title, command |-> t.command,
     interval_seconds |-> t.interval_seconds, is_active |-> t.is_active,
     last_run |-> t.last_run, next_run |-> t.next_run, created_at |-> t.created_at,
     success_count |-> t.success_count, failure_count |-> t.failure_count]

TaskFromJson(j) ==
    [id |-> j.id, title |-> j.title, command |-> j.command,
     interval_seconds |-> j.interval_seconds, is_active |-> j.is_active,
     last_run |-> j.last_run, next_run |-> j.next_run, created_at |-> j.created_at,
     success_count |-> j.success_count, failure_count |-> j.failure_count,
     last_output |-> <<>>]

MapSeq(F(_), s) == [i \in 1..Len(s) |-> F(s[i])]

TasksToJson(ts) == MapSeq(TaskToJson, ts)
TasksFromJson(js) == MapSeq(TaskFromJson, js)

DefaultConfig ==
    [refresh_interval |-> DefaultRefreshInterval, max_logs |-> DefaultMaxLogs,
     theme |-> "Dark", log_to_file |-> TRUE]

\* A document on disk: absent, present with content serde_json cannot read as
\* the expected type, or present and well-formed with the given content.
AbsentDoc == [state |-> "absent", content |-> <<>>]
MalformedDoc == [state |-> "malformed", content |-> <<>>]
Doc(content) == [state |-> "ok", content |-> content]

\* ------------------------------------------------------------ collections
Ids(ts) == {ts[i].id : i \in 1..Len(ts)}
Contains(v, x) == \E i \in 1..Len(v) : v[i] = x

\* iter().position(|t| t.id == id), 0 for None
Position(ts, id) ==
    IF id \in Ids(ts) THEN CHOOSE i \in 1..Len(ts) : ts[i].id = id /\ \A j \in 1..(i - 1) : ts[j].id # id
    ELSE 0

\* a save that drops the old entry and pushes the task at the end
RemoveAndPush(ts, task) ==
    LET Keep(t) == t.id # task.id IN Append(SelectSeq(ts, Keep), task)

\* a save that pushes the task whether or not an entry has its id
PushAlways(ts, task) == Append(ts, task)

\* tasks[pos] = task when an entry has the task's id, tasks.push(task) otherwise
ReplaceOrPush(ts, task) ==
    LET pos == Position(ts, task.id)
    IN  IF pos # 0 THEN [ts EXCEPT ![pos] = task] ELSE Append(ts, task)

\* tasks.retain(|t| t.id != id)
RetainOthers(ts, id) ==
    LET Keep(t) == t.id # id IN SelectSeq(ts, Keep)

\* ------------------------------------------------------------ state
VARIABLES
    tasks,            \* TaskWithMe.tasks: Vec<Task>
    logs,             \* TaskWithMe.logs: Vec<ExecutionLog>
    config,           \* TaskWithMe.config
    notifications,    \* TaskWithMe.notifications: the levels, oldest first
    running_tasks,    \* TaskWithMe.running_tasks: Vec<Uuid>
    title_input,      \* the form of the Tasks screen
    command_input,
    interval_input,
    refresh_input,    \* the inputs of the Settings screen
    max_logs_input,
    tasksDoc,         \* tasks.json
    logsDoc,          \* logs.json
    configDoc,        \* config.json
    cmds,             \* bag of the futures handed to the executor and not finished
    msgs,             \* bag of the Messages produced and not yet handled by update
    now,              \* Local::now()
    nextTaskId,       \* the next Uuid::new_v4() of CreateTask
    nextLogId,        \* the next Uuid::new_v4() of an ExecutionLog
    intents           \* Messages the user has sent so far

appVars == <<tasks, logs, config, notifications, running_tasks>>
formVars == <<title_input, command_input, interval_input>>
settingsVars == <<refresh_input, max_logs_input>>
docVars == <<tasksDoc, logsDoc, configDoc>>
envVars == <<now, nextTaskId, nextLogId>>
vars == <<appVars, formVars, settingsVars, docVars, cmds, msgs, envVars, intents>>

\* ------------------------------------------------------------ executor
\* Command::perform(future, f): the future goes to the executor.
InFlight == BagCardinality(cmds) + BagCardinality(msgs)
Perform(bag, c) == bag (+) SetToBag({c})
Finish(bag, c) == bag (-) SetToBag({c})

SaveTaskCmd(task) == [op |-> "save_task", phase |-> "start", task |-> task, read |-> <<>>]
DeleteTaskCmd(id) == [op |-> "delete_task", phase |-> "start", id |-> id, read |-> <<>>]
LoadTasksCmd == [op |-> "load_tasks"]
LoadLogsCmd == [op |-> "load_logs"]
LoadConfigCmd == [op |-> "load_config"]
SaveLogsCmd(ls) == [op |-> "save_logs", logs |-> ls]
SaveConfigCmd(c) == [op |-> "save_config", config |-> c]
ExecuteTaskCmd(task) == [op |-> "execute_task", task |-> task]

\* Message values on their way to update
ExecuteTaskMsg(id) == [msg |-> "ExecuteTask", id |-> id]
TasksLoadedMsg(res, ts) == [msg |-> "TasksLoaded", res |-> res, tasks |-> ts]
LogsLoadedMsg(res, ls) == [msg |-> "LogsLoaded", res |-> res, logs |-> ls]
ConfigLoadedMsg(res, c) == [msg |-> "ConfigLoaded", res |-> res, config |-> c]
TaskSavedMsg(res) == [msg |-> "TaskSaved", res |-> res]
TaskDeletedMsg(res) == [msg |-> "TaskDeleted", res |-> res]
ConfigSavedMsg(res) == [msg |-> "ConfigSaved", res |-> res]
TickMsg == [msg |-> "Tick"]

\* ------------------------------------------------------------ TaskWithMe
\* a notify that drops the notification it has just pushed (pop_back)
NotifyDropsNewest(q, level) ==
    IF Len(q) + 1 > NotificationCap THEN q ELSE Append(q, level)

\* fn notify: push_back, then pop_front when more than 10 are held
Notify(q, level) ==
    LET pushed == Append(q, level)
    IN  IF Len(pushed) > NotificationCap THEN Tail(pushed) ELSE pushed

\* ------------------------------------------------------------ f32
\* An f32 that is zero or positive and normal: <<m, e>> stands for m * 2^e
\* with 2^23 <= m < 2^24, and <<0, 0>> for 0.0.  Arithmetic rounds to the
\* nearest value, ties to the even mantissa (IEEE 754 binary32).
Pow2(n) == IF n = 0 THEN 1 ELSE IF n = 1 THEN 2 ELSE
           LET half == n \div 2
               RECURSIVE P(_)
               P(k) == IF k = 0 THEN 1 ELSE 2 * P(k - 1)
           IN  P(half) * P(n - half)

F32Zero == <<0, 0>>

\* the quotient num / den rounded to an integer, ties to even
RoundHalfEven(num, den) ==
    LET q == num \div den
        r == num % den
    IN  IF 2 * r > den \/ (2 * r = den /\ q % 2 = 1) THEN q + 1 ELSE q

\* a mantissa that rounding has carried to 2^24 is renormalised
F32Normal(m, e) == IF m = Pow2(24) THEN <<Pow2(23), e + 1>> ELSE <<m, e>>

\* the k with 2^23 <= p * 2^k / q < 2^24, for 0 < p <= q
RECURSIVE ScaleFrom(_, _, _)
ScaleFrom(scaled, least, k) ==
    IF scaled >= least THEN k ELSE ScaleFrom(2 * scaled, least, k + 1)

Scale(p, q) == ScaleFrom(p, Pow2(23) * q, 0)

\* p as f32 / q as f32, for counts p <= q far below 2^24 (the casts are exact)
F32Div(p, q) ==
    IF p = 0 THEN F32Zero
    ELSE LET k == Scale(p, q)
         IN  F32Normal(RoundHalfEven(p * Pow2(k), q), 0 - k)

\* x * 100.0
F32Mul100(x) ==
    IF x = F32Zero THEN F32Zero
    ELSE LET prod == x[1] * 100
             sh == IF prod < Pow2(30) THEN 6 ELSE 7
         IN  F32Normal(RoundHalfEven(prod, Pow2(sh)), x[2] + sh)

\* a rate without the guard for a task that never ran: 0 / 0 taken as 100
success_rate_unguarded(task) ==
    LET total == task.success_count + task.failure_count
    IN  IF total = 0 THEN F32Mul100(F32Div(1, 1))
        ELSE F32Mul100(F32Div(task.success_count, total))

\* fn success_rate
success_rate(task) ==
    LET total == task.success_count + task.failure_count
    IN  IF total = 0 THEN F32Zero
        ELSE F32Mul100(F32Div(task.success_count, total))

\* ------------------------------------------------------------ durations
\* a format_duration whose units start one second late (<= for <)
format_duration_late(seconds) ==
    IF seconds <= 60 THEN U64ToString(seconds) \o <<"s">>
    ELSE IF seconds <= 3600 THEN U64ToString(seconds \div 60) \o <<"m">>
    ELSE IF seconds <= 86400 THEN U64ToString(seconds \div 3600) \o <<"h">>
    ELSE U64ToString(seconds \div 86400) \o <<"d">>

\* fn format_duration
format_duration(seconds) ==
    IF seconds < 60 THEN U64ToString(seconds) \o <<"s">>
    ELSE IF seconds < 3600 THEN U64ToString(seconds \div 60) \o <<"m">>
    ELSE IF seconds < 86400 THEN U64ToString(seconds \div 3600) \o <<"h">>
    ELSE U64ToString(seconds \div 86400) \o <<"d">>

\* ------------------------------------------------------------ Init
\* TaskWithMe::new: the default state and the three loads, with the documents
\* an earlier run of the program left behind.
InitWith(tdoc, ldoc, cdoc) ==
    /\ tasks = <<>>
    /\ logs = <<>>
    /\ config = DefaultConfig
    /\ notifications = <<>>
    /\ running_tasks = <<>>
    /\ title_input = <<>>
    /\ command_input = <<>>
    /\ interval_input = <<>>
    /\ refresh_input = U64ToString(DefaultConfig.refresh_interval)
    /\ max_logs_input = U64ToString(DefaultConfig.max_logs)
    /\ tasksDoc = tdoc
    /\ logsDoc = ldoc
    /\ configDoc = cdoc
    /\ cmds = SetToBag({LoadConfigCmd, LoadTasksCmd, LoadLogsCmd})
    /\ msgs = EmptyBag
    /\ now = 1
    /\ nextTaskId = LET stored == Ids(tdoc.content)
                    IN  IF stored = {} THEN 1
                        ELSE 1 + CHOOSE id \in stored : \A other \in stored : other <= id
    /\ nextLogId = 1
    /\ intents = 0

\* ------------------------------------------------------------ update: the form
\* what the user types into the three inputs of the Tasks screen
TitleStrings == {<<>>, <<" ">>, <<"P">>}
CommandStrings == {<<>>, <<"l", "s">>}
IntervalStrings == {<<>>, <<"0">>, <<"1">>, <<"+", "2">>, <<"-", "1">>, <<"1", " ">>}

TitleInput(s) ==
    /\ title_input' = s
    /\ UNCHANGED <<appVars, command_input, interval_input, settingsVars, docVars,
                   cmds, msgs, envVars>>

CommandInput(s) ==
    /\ command_input' = s
    /\ UNCHANGED <<appVars, title_input, interval_input, settingsVars, docVars,
                   cmds, msgs, envVars>>

IntervalInput(s) ==
    /\ interval_input' = s
    /\ UNCHANGED <<appVars, title_input, command_input, settingsVars, docVars,
                   cmds, msgs, envVars>>

\* the validations without the n > 0 guard on the interval
CreateTaskValidAllowsZero ==
    /\ ~TrimIsEmpty(title_input)
    /\ ~TrimIsEmpty(command_input)
    /\ ParseUnsigned(interval_input) # ParseErr

\* the three validations of Message::CreateTask, in the order of the code
CreateTaskValid ==
    /\ ~TrimIsEmpty(title_input)
    /\ ~TrimIsEmpty(command_input)
    /\ ParseUnsigned(interval_input) # ParseErr
    /\ ParseUnsigned(interval_input) > 0

CreateTask ==
    /\ IF ~CreateTaskValid
       THEN /\ notifications' = Notify(notifications, "Warning")
            /\ UNCHANGED <<tasks, logs, config, running_tasks, formVars, cmds,
                           nextTaskId>>
       ELSE /\ LET task == NewTask(nextTaskId, title_input, command_input,
                                   ParseUnsigned(interval_input), now)
               IN  cmds' = Perform(cmds, SaveTaskCmd(task))
            /\ title_input' = <<>>
            /\ command_input' = <<>>
            /\ interval_input' = <<>>
            /\ notifications' = Notify(notifications, "Success")
            /\ nextTaskId' = nextTaskId + 1
            /\ UNCHANGED <<tasks, logs, config, running_tasks>>
    /\ UNCHANGED <<settingsVars, docVars, msgs, now, nextLogId>>

\* ------------------------------------------------------------ update: templates
\* get_templates() on Linux and macOS; the descriptions are not used by update
Templates ==
    <<[name |-> <<"S", "y", "s", "t", "e", "m", " ", "C", "l", "e", "a", "n", "u", "p">>,
       command |-> <<"f", "i", "n", "d", " ", "/", "t", "m", "p">>,
       interval |-> 3600],
      [name |-> <<"B", "a", "c", "k", "u", "p", " ", "D", "o", "c", "u", "m", "e", "n", "t", "s">>,
       command |-> <<"t", "a", "r", " ", "-", "c", "z", "f">>,
       interval |-> 86400],
      [name |-> <<"C", "h", "e", "c", "k", " ", "D", "i", "s", "k", " ", "S", "p", "a", "c", "e">>,
       command |-> <<"d", "f", " ", "-", "h">>,
       interval |-> 300],
      [name |-> <<"H", "e", "a", "l", "t", "h", " ", "P", "i", "n", "g">>,
       command |-> <<"p", "i", "n", "g", " ", "-", "c", " ", "4", " ", "8", ".", "8", ".", "8", ".", "8">>,
       interval |-> 60]>>

\* the template buttons the user presses (idx counts from 0)
TemplateChoices == {2, 3}

\* self.templates.get(idx)
SelectTemplate(idx) ==
    /\ IF idx + 1 \in 1..Len(Templates)
       THEN LET template == Templates[idx + 1]
            IN  /\ title_input' = template.name
                /\ command_input' = template.command
                /\ interval_input' = U64ToString(template.interval)
                /\ notifications' = Notify(notifications, "Info")
       ELSE UNCHANGED <<formVars, notifications>>
    /\ UNCHANGED <<tasks, logs, config, running_tasks, settingsVars, docVars,
                   cmds, msgs, envVars>>

\* ------------------------------------------------------------ update: tasks
\* a delete that also drops the log entries of the task
DeleteTaskPurgesLogs(id) ==
    LET NotOf(log) == log.task_id # id
    IN  /\ IF id \in Ids(tasks)
           THEN /\ notifications' = Notify(notifications, "Info")
           ELSE UNCHANGED notifications
        /\ logs' = SelectSeq(logs, NotOf)
        /\ cmds' = Perform(cmds, DeleteTaskCmd(id))
        /\ UNCHANGED <<tasks, config, running_tasks, formVars, settingsVars,
                       docVars, msgs, envVars>>

DeleteTask(id) ==
    /\ IF id \in Ids(tasks)
       THEN /\ notifications' = Notify(notifications, "Info")
       ELSE UNCHANGED notifications
    /\ cmds' = Perform(cmds, DeleteTaskCmd(id))
    /\ UNCHANGED <<tasks, logs, config, running_tasks, formVars, settingsVars,
                   docVars, msgs, envVars>>

\* a toggle that schedules the first run at once, forgetting the interval
ToggledNoInterval(t, time) ==
    IF ~t.is_active
    THEN [t EXCEPT !.is_active = TRUE, !.next_run = Some(time)]
    ELSE [t EXCEPT !.is_active = FALSE, !.next_run = None]

\* a toggle that deactivates without clearing next_run
ToggledKeepsNextRun(t, time) ==
    IF ~t.is_active
    THEN [t EXCEPT !.is_active = TRUE, !.next_run = Some(time + t.interval_seconds)]
    ELSE [t EXCEPT !.is_active = FALSE]

\* the task after the toggle: is_active flipped, next_run set or cleared
Toggled(t, time) ==
    IF ~t.is_active
    THEN [t EXCEPT !.is_active = TRUE, !.next_run = Some(time + t.interval_seconds)]
    ELSE [t EXCEPT !.is_active = FALSE, !.next_run = None]

ToggleTask(id) ==
    /\ IF id \in Ids(tasks)
       THEN LET pos == Position(tasks, id)
                task == Toggled(tasks[pos], now)
            IN  /\ tasks' = [tasks EXCEPT ![pos] = task]
                /\ notifications' = Notify(notifications, "Info")
                /\ cmds' = Perform(cmds, SaveTaskCmd(task))
       ELSE UNCHANGED <<tasks, notifications, cmds>>
    /\ UNCHANGED <<logs, config, running_tasks, formVars, settingsVars, docVars,
                   msgs, envVars>>

\* ExecuteTask without the running_tasks.contains(&id) check
ExecuteTaskUnchecked(id) ==
    /\ IF id \in Ids(tasks)
       THEN /\ running_tasks' = Append(running_tasks, id)
            /\ notifications' = Notify(notifications, "Info")
            /\ cmds' = Perform(cmds, ExecuteTaskCmd(tasks[Position(tasks, id)]))
       ELSE UNCHANGED <<running_tasks, notifications, cmds>>
    /\ UNCHANGED <<tasks, logs, config, formVars, settingsVars, docVars, now,
                   nextTaskId, nextLogId>>

\* ExecuteTask that rejects a running task without telling the user
ExecuteTaskSilent(id) ==
    /\ IF Contains(running_tasks, id)
       THEN UNCHANGED <<running_tasks, notifications, cmds>>
       ELSE IF id \in Ids(tasks)
       THEN /\ running_tasks' = Append(running_tasks, id)
            /\ notifications' = Notify(notifications, "Info")
            /\ cmds' = Perform(cmds, ExecuteTaskCmd(tasks[Position(tasks, id)]))
       ELSE UNCHANGED <<running_tasks, notifications, cmds>>
    /\ UNCHANGED <<tasks, logs, config, formVars, settingsVars, docVars, now,
                   nextTaskId, nextLogId>>

\* Message::ExecuteTask(id), from the Run button or from CheckScheduledTasks
ExecuteTask(id) ==
    /\ IF Contains(running_tasks, id)
       THEN /\ notifications' = Notify(notifications, "Warning")
            /\ UNCHANGED <<running_tasks, cmds>>
       ELSE IF id \in Ids(tasks)
       THEN /\ running_tasks' = Append(running_tasks, id)
            /\ notifications' = Notify(notifications, "Info")
            /\ cmds' = Perform(cmds, ExecuteTaskCmd(tasks[Position(tasks, id)]))
       ELSE UNCHANGED <<running_tasks, notifications, cmds>>
    /\ UNCHANGED <<tasks, logs, config, formVars, settingsVars, docVars, now,
                   nextTaskId, nextLogId>>

\* the user presses Run on a task of the list
ManualExecuteTask ==
    \E id \in Ids(tasks) : ExecuteTask(id) /\ UNCHANGED msgs

\* an ExecuteTask message emitted by CheckScheduledTasks arrives
ScheduledExecuteTask ==
    \E m \in BagToSet(msgs) :
        /\ m.msg = "ExecuteTask"
        /\ ExecuteTask(m.id)
        /\ msgs' = Finish(msgs, m)

\* ------------------------------------------------------------ update: completions
\* what execute_task returns: Err when the shell cannot be spawned, otherwise
\* the exit status, the trimmed stdout or stderr, and the elapsed milliseconds
ExecOk(success) ==
    [ok |-> TRUE, success |-> success,
     output |-> IF success THEN <<"o">> ELSE <<"e">>, duration_ms |-> 7]
ExecErr == [ok |-> FALSE, success |-> FALSE, output |-> <<>>, duration_ms |-> 0]
ExecResults == {ExecOk(TRUE), ExecOk(FALSE), ExecErr}

\* a completion that schedules from the previous next_run (catching up)
CompletedCatchUp(t, result, time) ==
    LET counted == IF result.success
                   THEN [t EXCEPT !.success_count = @ + 1]
                   ELSE [t EXCEPT !.failure_count = @ + 1]
        ran == [counted EXCEPT !.last_run = Some(time), !.last_output = result.output]
    IN  IF ran.is_active
        THEN [ran EXCEPT !.next_run = Some(t.next_run[1] + ran.interval_seconds)]
        ELSE ran

\* the task after an Ok result
Completed(t, result, time) ==
    LET counted == IF result.success
                   THEN [t EXCEPT !.success_count = @ + 1]
                   ELSE [t EXCEPT !.failure_count = @ + 1]
        ran == [counted EXCEPT !.last_run = Some(time), !.last_output = result.output]
    IN  IF ran.is_active
        THEN [ran EXCEPT !.next_run = Some(time + ran.interval_seconds)]
        ELSE ran

NewLog(logId, id, result, time) ==
    [id |-> logId, task_id |-> id, timestamp |-> time, success |-> result.success,
     output |-> result.output, duration_ms |-> result.duration_ms]

\* a push that makes room by dropping the newest of the entries held
PushLogEvictsNewest(ls, log, max_logs) ==
    IF Len(ls) + 1 > max_logs
    THEN Append(SubSeq(ls, 1, Len(ls) - 1), log)
    ELSE Append(ls, log)

\* self.logs.push(log); if self.logs.len() > self.config.max_logs { remove(0) }
PushLog(ls, log, max_logs) ==
    LET pushed == Append(ls, log)
    IN  IF Len(pushed) > max_logs THEN Tail(pushed) ELSE pushed

\* TaskExecuted that books an Err (the process was not spawned) as a failed run
TaskExecutedCountsErr(c, result) ==
    LET id == c.task.id
        Others(tid) == tid # id
        booked == IF result.ok THEN result ELSE ExecOk(FALSE)
    IN  /\ running_tasks' = SelectSeq(running_tasks, Others)
        /\ IF id \in Ids(tasks)
           THEN LET pos == Position(tasks, id)
                    task == Completed(tasks[pos], booked, now)
                    pushed == PushLog(logs, NewLog(nextLogId, id, booked, now),
                                      config.max_logs)
                IN  /\ tasks' = [tasks EXCEPT ![pos] = task]
                    /\ logs' = pushed
                    /\ nextLogId' = nextLogId + 1
                    /\ notifications' =
                           Notify(notifications,
                                  IF booked.success THEN "Success" ELSE "Error")
                    /\ cmds' = Perform(Perform(Finish(cmds, c), SaveTaskCmd(task)),
                                       SaveLogsCmd(pushed))
           ELSE /\ cmds' = Finish(cmds, c)
                /\ UNCHANGED <<tasks, logs, nextLogId, notifications>>
        /\ UNCHANGED <<config, formVars, settingsVars, docVars, msgs, now,
                       nextTaskId>>

\* TaskExecuted that keeps the id in running_tasks when the result is Err
TaskExecutedKeepsOnErr(c, result) ==
    LET id == c.task.id
        Others(tid) == tid # id
    IN  /\ IF result.ok /\ id \in Ids(tasks)
           THEN LET pos == Position(tasks, id)
                    task == Completed(tasks[pos], result, now)
                    pushed == PushLog(logs, NewLog(nextLogId, id, result, now),
                                      config.max_logs)
                IN  /\ running_tasks' = SelectSeq(running_tasks, Others)
                    /\ tasks' = [tasks EXCEPT ![pos] = task]
                    /\ logs' = pushed
                    /\ nextLogId' = nextLogId + 1
                    /\ notifications' =
                           Notify(notifications,
                                  IF result.success THEN "Success" ELSE "Error")
                    /\ cmds' = Perform(Perform(Finish(cmds, c), SaveTaskCmd(task)),
                                       SaveLogsCmd(pushed))
           ELSE IF result.ok
           THEN /\ running_tasks' = SelectSeq(running_tasks, Others)
                /\ cmds' = Finish(cmds, c)
                /\ UNCHANGED <<tasks, logs, nextLogId, notifications>>
           ELSE /\ notifications' = Notify(notifications, "Error")
                /\ cmds' = Finish(cmds, c)
                /\ UNCHANGED <<running_tasks, tasks, logs, nextLogId>>
        /\ UNCHANGED <<config, formVars, settingsVars, docVars, msgs, now,
                       nextTaskId>>

\* a handler that tells the user when the task of an Ok result is gone
TaskExecutedWarnsWhenGone(c, result) ==
    LET id == c.task.id
        Others(tid) == tid # id
    IN  /\ running_tasks' = SelectSeq(running_tasks, Others)
        /\ IF result.ok /\ id \in Ids(tasks)
           THEN LET pos == Position(tasks, id)
                    task == Completed(tasks[pos], result, now)
                    pushed == PushLog(logs, NewLog(nextLogId, id, result, now),
                                      config.max_logs)
                IN  /\ tasks' = [tasks EXCEPT ![pos] = task]
                    /\ logs' = pushed
                    /\ nextLogId' = nextLogId + 1
                    /\ notifications' =
                           Notify(notifications,
                                  IF result.success THEN "Success" ELSE "Error")
                    /\ cmds' = Perform(Perform(Finish(cmds, c), SaveTaskCmd(task)),
                                       SaveLogsCmd(pushed))
           ELSE IF result.ok
           THEN /\ notifications' = Notify(notifications, "Warning")
                /\ cmds' = Finish(cmds, c)
                /\ UNCHANGED <<tasks, logs, nextLogId>>
           ELSE /\ notifications' = Notify(notifications, "Error")
                /\ cmds' = Finish(cmds, c)
                /\ UNCHANGED <<tasks, logs, nextLogId>>
        /\ UNCHANGED <<config, formVars, settingsVars, docVars, msgs, now,
                       nextTaskId>>

\* a handler that frees the id only while the task is still in memory
TaskExecutedKeepsWhenDeleted(c, result) ==
    LET id == c.task.id
        Others(tid) == tid # id
    IN  /\ running_tasks' = IF id \in Ids(tasks)
                            THEN SelectSeq(running_tasks, Others)
                            ELSE running_tasks
        /\ IF result.ok /\ id \in Ids(tasks)
           THEN LET pos == Position(tasks, id)
                    task == Completed(tasks[pos], result, now)
                    pushed == PushLog(logs, NewLog(nextLogId, id, result, now),
                                      config.max_logs)
                IN  /\ tasks' = [tasks EXCEPT ![pos] = task]
                    /\ logs' = pushed
                    /\ nextLogId' = nextLogId + 1
                    /\ notifications' =
                           Notify(notifications,
                                  IF result.success THEN "Success" ELSE "Error")
                    /\ cmds' = Perform(Perform(Finish(cmds, c), SaveTaskCmd(task)),
                                       SaveLogsCmd(pushed))
           ELSE IF result.ok
           THEN /\ cmds' = Finish(cmds, c)
                /\ UNCHANGED <<tasks, logs, nextLogId, notifications>>
           ELSE /\ notifications' = Notify(notifications, "Error")
                /\ cmds' = Finish(cmds, c)
                /\ UNCHANGED <<tasks, logs, nextLogId>>
        /\ UNCHANGED <<config, formVars, settingsVars, docVars, msgs, now,
                       nextTaskId>>

\* Message::TaskExecuted(id, result): the execution of cmd c ends with result
TaskExecuted(c, result) ==
    LET id == c.task.id
        Others(tid) == tid # id
    IN  /\ running_tasks' = SelectSeq(running_tasks, Others)
        /\ IF result.ok /\ id \in Ids(tasks)
           THEN LET pos == Position(tasks, id)
                    task == Completed(tasks[pos], result, now)
                    pushed == PushLog(logs, NewLog(nextLogId, id, result, now),
                                      config.max_logs)
                IN  /\ tasks' = [tasks EXCEPT ![pos] = task]
                    /\ logs' = pushed
                    /\ nextLogId' = nextLogId + 1
                    /\ notifications' =
                           Notify(notifications,
                                  IF result.success THEN "Success" ELSE "Error")
                    /\ cmds' = Perform(Perform(Finish(cmds, c), SaveTaskCmd(task)),
                                       SaveLogsCmd(pushed))
           ELSE IF result.ok
           THEN /\ cmds' = Finish(cmds, c)
                /\ UNCHANGED <<tasks, logs, nextLogId, notifications>>
           ELSE /\ notifications' = Notify(notifications, "Error")
                /\ cmds' = Finish(cmds, c)
                /\ UNCHANGED <<tasks, logs, nextLogId>>
        /\ UNCHANGED <<config, formVars, settingsVars, docVars, msgs, now,
                       nextTaskId>>

ExecutionEnds ==
    \E c \in BagToSet(cmds) :
        /\ c.op = "execute_task"
        /\ \E result \in ExecResults : TaskExecuted(c, result)

\* ------------------------------------------------------------ update: results
TasksLoaded(m) ==
    /\ m.msg = "TasksLoaded"
    /\ IF m.res = "Ok"
       THEN tasks' = m.tasks /\ UNCHANGED notifications
       ELSE /\ notifications' = Notify(notifications, "Error")
            /\ UNCHANGED tasks
    /\ msgs' = Finish(msgs, m)
    /\ UNCHANGED <<logs, config, running_tasks, formVars, settingsVars, docVars,
                   cmds, envVars>>

LogsLoaded(m) ==
    /\ m.msg = "LogsLoaded"
    /\ IF m.res = "Ok" THEN logs' = m.logs ELSE UNCHANGED logs
    /\ msgs' = Finish(msgs, m)
    /\ UNCHANGED <<tasks, config, notifications, running_tasks, formVars,
                   settingsVars, docVars, cmds, envVars>>

\* TaskSaved and TaskDeleted: Ok reloads the tasks, Err notifies
TaskSaved(m) ==
    /\ m.msg = "TaskSaved"
    /\ IF m.res = "Ok"
       THEN /\ cmds' = Perform(cmds, LoadTasksCmd)
            /\ UNCHANGED notifications
       ELSE /\ notifications' = Notify(notifications, "Error")
            /\ UNCHANGED cmds
    /\ msgs' = Finish(msgs, m)
    /\ UNCHANGED <<tasks, logs, config, running_tasks, formVars, settingsVars,
                   docVars, envVars>>

TaskDeleted(m) ==
    /\ m.msg = "TaskDeleted"
    /\ IF m.res = "Ok"
       THEN /\ cmds' = Perform(cmds, LoadTasksCmd)
            /\ UNCHANGED notifications
       ELSE /\ notifications' = Notify(notifications, "Error")
            /\ UNCHANGED cmds
    /\ msgs' = Finish(msgs, m)
    /\ UNCHANGED <<tasks, logs, config, running_tasks, formVars, settingsVars,
                   docVars, envVars>>

ConfigLoaded(m) ==
    /\ m.msg = "ConfigLoaded"
    /\ IF m.res = "Ok"
       THEN /\ config' = m.config
            /\ refresh_input' = U64ToString(m.config.refresh_interval)
            /\ max_logs_input' = U64ToString(m.config.max_logs)
       ELSE UNCHANGED <<config, settingsVars>>
    /\ msgs' = Finish(msgs, m)
    /\ UNCHANGED <<tasks, logs, notifications, running_tasks, formVars, docVars,
                   cmds, envVars>>

ConfigSaved(m) ==
    /\ m.msg = "ConfigSaved"
    /\ notifications' = Notify(notifications, IF m.res = "Ok" THEN "Success" ELSE "Error")
    /\ msgs' = Finish(msgs, m)
    /\ UNCHANGED <<tasks, logs, config, running_tasks, formVars, settingsVars,
                   docVars, cmds, envVars>>

\* Message::Tick, the result of save_logs
Tick(m) ==
    /\ m.msg = "Tick"
    /\ msgs' = Finish(msgs, m)
    /\ UNCHANGED <<appVars, formVars, settingsVars, docVars, cmds, envVars>>

\* ------------------------------------------------------------ update: notifications
\* CloseNotification(id): retain the others; the ids are unique, so the one at
\* position i goes
CloseNotification(i) ==
    /\ notifications' = [j \in 1..(Len(notifications) - 1) |->
                            IF j < i THEN notifications[j] ELSE notifications[j + 1]]
    /\ UNCHANGED <<tasks, logs, config, running_tasks, formVars, settingsVars,
                   docVars, cmds, msgs, envVars>>

ClearNotifications ==
    /\ notifications' = <<>>
    /\ UNCHANGED <<tasks, logs, config, running_tasks, formVars, settingsVars,
                   docVars, cmds, msgs, envVars>>

\* ------------------------------------------------------------ update: settings
RefreshStrings == {<<"0">>, <<"2">>, <<"x">>}
MaxLogsStrings == {<<"3">>, <<"1", "0">>, <<"1", "1">>, <<>>}
Themes == {"Light", "Dark"}

ThemeChanged(theme) ==
    /\ config' = [config EXCEPT !.theme = theme]
    /\ UNCHANGED <<tasks, logs, notifications, running_tasks, formVars, settingsVars,
                   docVars, cmds, msgs, envVars>>

RefreshIntervalChanged(s) ==
    /\ refresh_input' = s
    /\ UNCHANGED <<appVars, formVars, max_logs_input, docVars, cmds, msgs, envVars>>

MaxLogsChanged(s) ==
    /\ max_logs_input' = s
    /\ UNCHANGED <<appVars, formVars, refresh_input, docVars, cmds, msgs, envVars>>

Max(a, b) == IF a >= b THEN a ELSE b

\* the config after Message::SaveSettings
SettingsApplied(c, refresh, max_logs) ==
    LET c1 == IF ParseUnsigned(refresh) # ParseErr
              THEN [c EXCEPT !.refresh_interval = Max(ParseUnsigned(refresh), MinRefreshInterval)]
              ELSE c
    IN  IF ParseUnsigned(max_logs) # ParseErr
        THEN [c1 EXCEPT !.max_logs = Max(ParseUnsigned(max_logs), MinMaxLogs)]
        ELSE c1

SaveSettings ==
    /\ config' = SettingsApplied(config, refresh_input, max_logs_input)
    /\ cmds' = Perform(cmds, SaveConfigCmd(config'))
    /\ UNCHANGED <<tasks, logs, notifications, running_tasks, formVars, settingsVars,
                   docVars, msgs, envVars>>

\* ------------------------------------------------------------ update: the scheduler
\* a due test that does not look at running_tasks
DueIgnoresRunning(t, time, running) ==
    /\ t.is_active
    /\ t.next_run # None
    /\ time >= t.next_run[1]

\* the condition of the loop body of Message::CheckScheduledTasks
Due(t, time, running) ==
    /\ t.is_active
    /\ t.next_run # None
    /\ time >= t.next_run[1]
    /\ ~Contains(running, t.id)

\* a scan that looks at the first task of the list only
DueRequestsHeadOnly(ts, time, running) ==
    IF Len(ts) > 0 /\ Due(ts[1], time, running)
    THEN <<ExecuteTaskMsg(ts[1].id)>>
    ELSE <<>>

\* one Message::ExecuteTask per entry of self.tasks that is due
DueRequests(ts, time, running) ==
    LET IsDue(t) == Due(t, time, running)
        due == SelectSeq(ts, IsDue)
    IN  [i \in 1..Len(due) |-> ExecuteTaskMsg(due[i].id)]

RECURSIVE PerformAll(_, _)
PerformAll(bag, s) ==
    IF Len(s) = 0 THEN bag ELSE PerformAll(Perform(bag, s[1]), Tail(s))

\* a scan that marks the due tasks as running while it emits the requests
CheckScheduledTasksMarksRunning ==
    LET requests == DueRequests(tasks, now, running_tasks)
    IN  /\ msgs' = PerformAll(msgs, requests)
        /\ running_tasks' = running_tasks \o [i \in 1..Len(requests) |-> requests[i].id]
        /\ UNCHANGED <<tasks, logs, config, notifications, formVars, settingsVars,
                       docVars, cmds, envVars>>

CheckScheduledTasks ==
    LET requests == DueRequests(tasks, now, running_tasks)
    IN  /\ msgs' = PerformAll(msgs, requests)
        /\ UNCHANGED <<appVars, formVars, settingsVars, docVars, cmds, envVars>>

\* time passes
AdvanceTime ==
    /\ now' = now + 1
    /\ UNCHANGED <<appVars, formVars, settingsVars, docVars, cmds, msgs,
                   nextTaskId, nextLogId>>

\* ------------------------------------------------------------ the futures
\* Each step below is one file operation of one future on a worker thread.

\* save_task, first half: read tasks.json; unwrap_or_default turns content
\* that does not parse into an empty Vec
SaveTaskLoaded(doc) ==
    IF doc.state = "ok" THEN TasksFromJson(doc.content) ELSE <<>>

SaveTaskRead(c) ==
    /\ c.op = "save_task" /\ c.phase = "start"
    /\ cmds' = Perform(Finish(cmds, c),
                       [c EXCEPT !.phase = "read", !.read = SaveTaskLoaded(tasksDoc)])
    /\ UNCHANGED <<appVars, formVars, settingsVars, docVars, msgs, envVars>>

\* save_task, second half: replace or push, write the whole collection
SaveTaskWrite(c) ==
    /\ c.op = "save_task" /\ c.phase = "read"
    /\ tasksDoc' = Doc(TasksToJson(ReplaceOrPush(c.read, c.task)))
    /\ cmds' = Finish(cmds, c)
    /\ msgs' = Perform(msgs, TaskSavedMsg("Ok"))
    /\ UNCHANGED <<appVars, formVars, settingsVars, logsDoc, configDoc, envVars>>

\* delete_task, first half: nothing to do when tasks.json is absent, an error
\* when it does not parse
DeleteTaskRead(c) ==
    /\ c.op = "delete_task" /\ c.phase = "start"
    /\ IF tasksDoc.state = "absent"
       THEN /\ cmds' = Finish(cmds, c)
            /\ msgs' = Perform(msgs, TaskDeletedMsg("Ok"))
       ELSE IF tasksDoc.state = "malformed"
       THEN /\ cmds' = Finish(cmds, c)
            /\ msgs' = Perform(msgs, TaskDeletedMsg("Serialization"))
       ELSE /\ cmds' = Perform(Finish(cmds, c),
                          [c EXCEPT !.phase = "read",
                                    !.read = TasksFromJson(tasksDoc.content)])
            /\ UNCHANGED msgs
    /\ UNCHANGED <<appVars, formVars, settingsVars, docVars, envVars>>

\* delete_task, second half: retain the others, write the whole collection
DeleteTaskWrite(c) ==
    /\ c.op = "delete_task" /\ c.phase = "read"
    /\ tasksDoc' = Doc(TasksToJson(RetainOthers(c.read, c.id)))
    /\ cmds' = Finish(cmds, c)
    /\ msgs' = Perform(msgs, TaskDeletedMsg("Ok"))
    /\ UNCHANGED <<appVars, formVars, settingsVars, logsDoc, configDoc, envVars>>

\* a load_tasks that reads like save_task: unwrap_or_default on content that
\* does not parse
LoadTasksLenient(c) ==
    /\ c.op = "load_tasks"
    /\ cmds' = Finish(cmds, c)
    /\ msgs' = Perform(msgs, TasksLoadedMsg("Ok", SaveTaskLoaded(tasksDoc)))
    /\ UNCHANGED <<appVars, formVars, settingsVars, docVars, envVars>>

\* load_tasks: Ok(Vec::new()) when tasks.json is absent, the serde error when
\* it does not parse
LoadTasks(c) ==
    /\ c.op = "load_tasks"
    /\ cmds' = Finish(cmds, c)
    /\ msgs' = Perform(msgs,
                  IF tasksDoc.state = "absent" THEN TasksLoadedMsg("Ok", <<>>)
                  ELSE IF tasksDoc.state = "malformed"
                  THEN TasksLoadedMsg("Serialization", <<>>)
                  ELSE TasksLoadedMsg("Ok", TasksFromJson(tasksDoc.content)))
    /\ UNCHANGED <<appVars, formVars, settingsVars, docVars, envVars>>

LoadLogs(c) ==
    /\ c.op = "load_logs"
    /\ cmds' = Finish(cmds, c)
    /\ msgs' = Perform(msgs,
                  IF logsDoc.state = "absent" THEN LogsLoadedMsg("Ok", <<>>)
                  ELSE IF logsDoc.state = "malformed"
                  THEN LogsLoadedMsg("Serialization", <<>>)
                  ELSE LogsLoadedMsg("Ok", logsDoc.content))
    /\ UNCHANGED <<appVars, formVars, settingsVars, docVars, envVars>>

\* a load_config that returns the default without writing config.json
LoadConfigNoWrite(c) ==
    /\ c.op = "load_config"
    /\ cmds' = Finish(cmds, c)
    /\ msgs' = Perform(msgs,
                  IF configDoc.state = "absent" THEN ConfigLoadedMsg("Ok", DefaultConfig)
                  ELSE IF configDoc.state = "malformed"
                  THEN ConfigLoadedMsg("Serialization", DefaultConfig)
                  ELSE ConfigLoadedMsg("Ok", configDoc.content[1]))
    /\ UNCHANGED <<appVars, formVars, settingsVars, docVars, envVars>>

\* load_config writes the default configuration when config.json is absent
LoadConfig(c) ==
    /\ c.op = "load_config"
    /\ cmds' = Finish(cmds, c)
    /\ IF configDoc.state = "absent"
       THEN /\ configDoc' = Doc(<<DefaultConfig>>)
            /\ msgs' = Perform(msgs, ConfigLoadedMsg("Ok", DefaultConfig))
       ELSE IF configDoc.state = "malformed"
       THEN /\ msgs' = Perform(msgs, ConfigLoadedMsg("Serialization", DefaultConfig))
            /\ UNCHANGED configDoc
       ELSE /\ msgs' = Perform(msgs, ConfigLoadedMsg("Ok", configDoc.content[1]))
            /\ UNCHANGED configDoc
    /\ UNCHANGED <<appVars, formVars, settingsVars, tasksDoc, logsDoc, envVars>>

SaveLogs(c) ==
    /\ c.op = "save_logs"
    /\ logsDoc' = Doc(c.logs)
    /\ cmds' = Finish(cmds, c)
    /\ msgs' = Perform(msgs, TickMsg)
    /\ UNCHANGED <<appVars, formVars, settingsVars, tasksDoc, configDoc, envVars>>

SaveConfig(c) ==
    /\ c.op = "save_config"
    /\ configDoc' = Doc(<<c.config>>)
    /\ cmds' = Finish(cmds, c)
    /\ msgs' = Perform(msgs, ConfigSavedMsg("Ok"))
    /\ UNCHANGED <<appVars, formVars, settingsVars, tasksDoc, logsDoc, envVars>>

\* A file-system call of a future (get_data_dir, read_to_string, write) returns
\* an io::Error: `?` turns it into AppError::Io and the future ends with Err.
\* The document is left as it was.  The result of save_logs is discarded by
\* its `|_| Message::Tick`.
StorageOps ==
    {"load_tasks", "load_logs", "load_config", "save_task", "delete_task",
     "save_logs", "save_config"}

FailureMsg(c) ==
    CASE c.op = "load_tasks" -> TasksLoadedMsg("Io", <<>>)
      [] c.op = "load_logs" -> LogsLoadedMsg("Io", <<>>)
      [] c.op = "load_config" -> ConfigLoadedMsg("Io", DefaultConfig)
      [] c.op = "save_task" -> TaskSavedMsg("Io")
      [] c.op = "delete_task" -> TaskDeletedMsg("Io")
      [] c.op = "save_logs" -> TickMsg
      [] c.op = "save_config" -> ConfigSavedMsg("Io")

IoFails(c) ==
    /\ c.op \in StorageOps
    /\ cmds' = Finish(cmds, c)
    /\ msgs' = Perform(msgs, FailureMsg(c))
    /\ UNCHANGED <<appVars, formVars, settingsVars, docVars, envVars>>

\* ------------------------------------------------------------ the environment
\* a Message waiting for update, a future on the executor
OnMsg(Handler(_)) == \E m \in BagToSet(msgs) : Handler(m)
OnCmd(Step(_)) == \E c \in BagToSet(cmds) : Step(c)

Pending(op) == \E c \in BagToSet(cmds) : c.op = op
Waiting(msg) == \E m \in BagToSet(msgs) : m.msg = msg

\* The bounds of the model.
Bounded(execs) ==
    /\ InFlight <= MaxInFlight
    /\ nextLogId <= execs + 1
    /\ now <= MaxTime
    /\ intents <= MaxIntents

\* The user reads and closes notifications before more than MaxNotes pile up.
Attended == Len(notifications) < MaxNotes

\* The loads of logs and config that TaskWithMe::new starts have come back.
Started ==
    /\ ~Pending("load_logs") /\ ~Pending("load_config")
    /\ ~Waiting("LogsLoaded") /\ ~Waiting("ConfigLoaded")

\* Steps that touch nothing the tasks depend on run as soon as they can: the
\* write of logs.json and its Tick, and the TaskSaved and TaskDeleted results,
\* whose handlers only start the reload.
Flushed ==
    /\ ~Pending("save_logs")
    /\ ~Waiting("Tick") /\ ~Waiting("TaskSaved") /\ ~Waiting("TaskDeleted")

Calm == Attended /\ Flushed

\* a Message from a widget of the view
User(A) == Started /\ Calm /\ A /\ intents' = intents + 1 /\ Bounded(MaxRacedExecs)'
\* a Message from the runtime, a step of a future, the clock
Runtime(A) == Calm /\ A /\ UNCHANGED intents /\ Bounded(MaxRacedExecs)'
\* a step that runs as soon as it can
Eager(A) == A /\ UNCHANGED intents

\* tasks.json as an earlier run left it: absent, or holding a task that is
\* active, ran at time 0 and is due again at time 1, and a task never started
StoredActive ==
    [id |-> 1, title |-> <<"P">>, command |-> <<"l", "s">>, interval_seconds |-> 1,
     is_active |-> TRUE, last_run |-> Some(0), next_run |-> Some(1), created_at |-> 0,
     success_count |-> 1, failure_count |-> 0]

StoredInactive ==
    [id |-> 2, title |-> <<"Q">>, command |-> <<"l", "s">>, interval_seconds |-> 1,
     is_active |-> FALSE, last_run |-> None, next_run |-> None, created_at |-> 0,
     success_count |-> 0, failure_count |-> 0]

InitTaskDocs == {AbsentDoc, Doc(<<StoredActive>>)}

Init ==
    \E tdoc \in InitTaskDocs : InitWith(tdoc, AbsentDoc, AbsentDoc)

\* ------------------------------------------------------------ specification
\* The scheduling engine: tasks are created from the templates, toggled, run by
\* hand and by the scheduler, deleted; every future and every result is there.
Next ==
    \/ User(\E idx \in TemplateChoices : SelectTemplate(idx))
    \/ User(CreateTask)
    \/ User(\E id \in Ids(tasks) : DeleteTask(id))
    \/ User(\E id \in Ids(tasks) : ToggleTask(id))
    \/ User(ManualExecuteTask)
    \/ Runtime(Started /\ CheckScheduledTasks)
    \/ Runtime(Started /\ AdvanceTime)
    \/ Runtime(ScheduledExecuteTask)
    \/ Runtime(ExecutionEnds)
    \/ Runtime(OnMsg(TasksLoaded))
    \/ Runtime(OnMsg(LogsLoaded))
    \/ Runtime(OnMsg(ConfigLoaded))
    \/ Runtime(OnCmd(LoadTasks))
    \/ Runtime(OnCmd(LoadLogs))
    \/ Runtime(OnCmd(LoadConfig))
    \/ Runtime(OnCmd(SaveTaskRead))
    \/ Runtime(OnCmd(SaveTaskWrite))
    \/ Runtime(OnCmd(DeleteTaskRead))
    \/ Runtime(OnCmd(DeleteTaskWrite))
    \/ Eager(OnCmd(SaveLogs))
    \/ Eager(OnMsg(Tick))
    \/ Eager(OnMsg(TaskSaved))
    \/ Eager(OnMsg(TaskDeleted))
    \/ Eager(\E i \in 1..Len(notifications) : CloseNotification(i))

Spec == Init /\ [][Next]_vars

\* The running set: both stored tasks are there, the user toggles, runs and
\* deletes them, the scheduler runs them; every step of the persistence layer
\* runs as soon as it can, so only executions and ExecuteTask messages are in
\* flight when the next Message is sent.
Synced ==
    /\ ~Pending("save_task") /\ ~Pending("delete_task") /\ ~Pending("load_tasks")
    /\ ~Waiting("TasksLoaded")

Idle == Started /\ Calm /\ Synced

UserIdle(A) == Idle /\ A /\ intents' = intents + 1 /\ Bounded(MaxExecs)'
RuntimeIdle(A) == Idle /\ A /\ UNCHANGED intents /\ Bounded(MaxExecs)'

InitRunTasks == <<StoredActive, StoredInactive>>

InitRun == InitWith(Doc(InitRunTasks), AbsentDoc, AbsentDoc)

NextRun ==
    \/ UserIdle(\E id \in Ids(tasks) : DeleteTask(id))
    \/ UserIdle(\E id \in Ids(tasks) : ToggleTask(id))
    \/ UserIdle(ManualExecuteTask)
    \/ RuntimeIdle(CheckScheduledTasks)
    \/ RuntimeIdle(AdvanceTime)
    \/ RuntimeIdle(ScheduledExecuteTask)
    \/ RuntimeIdle(ExecutionEnds)
    \/ Eager(OnMsg(TasksLoaded))
    \/ Eager(OnMsg(LogsLoaded))
    \/ Eager(OnMsg(ConfigLoaded))
    \/ Eager(OnCmd(LoadTasks))
    \/ Eager(OnCmd(LoadLogs))
    \/ Eager(OnCmd(LoadConfig))
    \/ Eager(OnCmd(SaveTaskRead))
    \/ Eager(OnCmd(SaveTaskWrite))
    \/ Eager(OnCmd(DeleteTaskRead))
    \/ Eager(OnCmd(DeleteTaskWrite))
    \/ Eager(OnCmd(SaveLogs))
    \/ Eager(OnMsg(Tick))
    \/ Eager(OnMsg(TaskSaved))
    \/ Eager(OnMsg(TaskDeleted))
    \/ Eager(\E i \in 1..Len(notifications) : CloseNotification(i))

SpecRun == InitRun /\ [][NextRun]_vars

\* The log collection: logs.json holds what an earlier run left under the
\* default max_logs, the user edits and saves the settings, the scheduler runs
\* the stored task; persistence runs as soon as it can.
StoredLog(i) ==
    [id |-> 0 - i, task_id |-> StoredActive.id, timestamp |-> 0, success |-> TRUE,
     output |-> <<"o">>, duration_ms |-> 7]

StoredLogs(n) == [i \in 1..n |-> StoredLog(i)]

InitLogs ==
    \E n \in {MinMaxLogs, MinMaxLogs + 1} :
        InitWith(Doc(<<StoredActive>>), Doc(StoredLogs(n)), AbsentDoc)

SettingsIdle == Idle /\ ~Pending("save_config") /\ ~Waiting("ConfigSaved")

NextLogs ==
    \/ UserIdle(SettingsIdle /\ \E s \in RefreshStrings : RefreshIntervalChanged(s))
    \/ UserIdle(SettingsIdle /\ \E s \in MaxLogsStrings : MaxLogsChanged(s))
    \/ UserIdle(SettingsIdle /\ \E theme \in Themes : ThemeChanged(theme))
    \/ UserIdle(SettingsIdle /\ SaveSettings)
    \/ RuntimeIdle(SettingsIdle /\ CheckScheduledTasks)
    \/ RuntimeIdle(SettingsIdle /\ AdvanceTime)
    \/ RuntimeIdle(SettingsIdle /\ ScheduledExecuteTask)
    \/ RuntimeIdle(SettingsIdle /\ ExecutionEnds)
    \/ Eager(OnMsg(TasksLoaded))
    \/ Eager(OnMsg(LogsLoaded))
    \/ Eager(OnMsg(ConfigLoaded))
    \/ Eager(OnCmd(LoadTasks))
    \/ Eager(OnCmd(LoadLogs))
    \/ Eager(OnCmd(LoadConfig))
    \/ Eager(OnCmd(SaveTaskRead))
    \/ Eager(OnCmd(SaveTaskWrite))
    \/ Eager(OnCmd(SaveLogs))
    \/ Eager(OnCmd(SaveConfig))
    \/ Eager(OnMsg(Tick))
    \/ Eager(OnMsg(TaskSaved))
    \/ Eager(OnMsg(ConfigSaved))
    \/ Eager(\E i \in 1..Len(notifications) : CloseNotification(i))

SpecLogs == InitLogs /\ [][NextLogs]_vars

\* The form: the user types into the three inputs and presses Create, and runs
\* a task that is not running; persistence runs as soon as it can.
InitForm == InitWith(Doc(<<StoredInactive>>), AbsentDoc, AbsentDoc)

NextForm ==
    \/ RuntimeIdle(\E s \in TitleStrings : TitleInput(s))
    \/ RuntimeIdle(\E s \in CommandStrings : CommandInput(s))
    \/ RuntimeIdle(\E s \in IntervalStrings : IntervalInput(s))
    \/ UserIdle(CreateTask)
    \/ UserIdle(\E id \in Ids(tasks) :
                   /\ ~Contains(running_tasks, id)
                   /\ ExecuteTask(id)
                   /\ UNCHANGED msgs)
    \/ RuntimeIdle(ExecutionEnds)
    \/ Eager(OnMsg(TasksLoaded))
    \/ Eager(OnMsg(LogsLoaded))
    \/ Eager(OnMsg(ConfigLoaded))
    \/ Eager(OnCmd(LoadTasks))
    \/ Eager(OnCmd(LoadLogs))
    \/ Eager(OnCmd(LoadConfig))
    \/ Eager(OnCmd(SaveTaskRead))
    \/ Eager(OnCmd(SaveTaskWrite))
    \/ Eager(OnCmd(SaveLogs))
    \/ Eager(OnMsg(Tick))
    \/ Eager(OnMsg(TaskSaved))
    \/ Eager(\E i \in 1..Len(notifications) : CloseNotification(i))

SpecForm == InitForm /\ [][NextForm]_vars

\* Failing storage: the stored task is toggled, deleted and run by the
\* scheduler, the settings are saved, and any file-system call of any future
\* may fail; persistence runs as soon as it can, all within one second.
InitFail == InitWith(Doc(<<StoredActive>>), AbsentDoc, AbsentDoc)

NextFail ==
    \/ UserIdle(SettingsIdle /\ \E id \in Ids(tasks) : ToggleTask(id))
    \/ UserIdle(SettingsIdle /\ \E id \in Ids(tasks) : DeleteTask(id))
    \/ UserIdle(SettingsIdle /\ \E s \in MaxLogsStrings : MaxLogsChanged(s))
    \/ UserIdle(SettingsIdle /\ SaveSettings)
    \/ RuntimeIdle(SettingsIdle /\ CheckScheduledTasks)
    \/ RuntimeIdle(SettingsIdle /\ ScheduledExecuteTask)
    \/ RuntimeIdle(SettingsIdle /\ ExecutionEnds)
    \/ Eager(OnCmd(IoFails))
    \/ Eager(OnMsg(TasksLoaded))
    \/ Eager(OnMsg(LogsLoaded))
    \/ Eager(OnMsg(ConfigLoaded))
    \/ Eager(OnCmd(LoadTasks))
    \/ Eager(OnCmd(LoadLogs))
    \/ Eager(OnCmd(LoadConfig))
    \/ Eager(OnCmd(SaveTaskRead))
    \/ Eager(OnCmd(SaveTaskWrite))
    \/ Eager(OnCmd(DeleteTaskRead))
    \/ Eager(OnCmd(DeleteTaskWrite))
    \/ Eager(OnCmd(SaveLogs))
    \/ Eager(OnCmd(SaveConfig))
    \/ Eager(OnMsg(Tick))
    \/ Eager(OnMsg(TaskSaved))
    \/ Eager(OnMsg(TaskDeleted))
    \/ Eager(OnMsg(ConfigSaved))
    \/ Eager(\E i \in 1..Len(notifications) : CloseNotification(i))

SpecFail == InitFail /\ [][NextFail]_vars

\* Corrupted storage: tasks.json holds the stored task or text that does not
\* parse, and may be overwritten from outside with text that does not parse
\* while the program runs; the user toggles and deletes the task, and the
\* futures interleave freely.
TasksDocCorrupted ==
    /\ tasksDoc.state = "ok"
    /\ tasksDoc' = MalformedDoc
    /\ UNCHANGED <<appVars, formVars, settingsVars, logsDoc, configDoc, cmds, msgs,
                   envVars>>

\* an event outside the program
Outside(A) == A /\ intents' = intents + 1 /\ Bounded(MaxRacedExecs)'

InitCorrupt ==
    \E tdoc \in {MalformedDoc, Doc(<<StoredActive, StoredInactive>>)} :
        InitWith(tdoc, AbsentDoc, AbsentDoc)

NextCorrupt ==
    \/ Outside(TasksDocCorrupted)
    \/ User(\E id \in Ids(tasks) : ToggleTask(id))
    \/ User(\E id \in Ids(tasks) : DeleteTask(id))
    \/ Runtime(OnMsg(TasksLoaded))
    \/ Runtime(OnCmd(LoadTasks))
    \/ Runtime(OnCmd(SaveTaskRead))
    \/ Runtime(OnCmd(SaveTaskWrite))
    \/ Runtime(OnCmd(DeleteTaskRead))
    \/ Runtime(OnCmd(DeleteTaskWrite))
    \/ Eager(OnMsg(LogsLoaded))
    \/ Eager(OnMsg(ConfigLoaded))
    \/ Eager(OnCmd(LoadLogs))
    \/ Eager(OnCmd(LoadConfig))
    \/ Eager(OnMsg(TaskSaved))
    \/ Eager(OnMsg(TaskDeleted))
    \/ Eager(\E i \in 1..Len(notifications) : CloseNotification(i))

SpecCorrupt == InitCorrupt /\ [][NextCorrupt]_vars

\* The settings: config.json is absent or holds what was put there by hand,
\* values below the minimums of the Settings screen; the user edits the
\* inputs, picks a theme and saves.
StoredLowConfig ==
    [refresh_interval |-> 0, max_logs |-> 3, theme |-> "Light", log_to_file |-> FALSE]

InitSettings ==
    \E cdoc \in {AbsentDoc, MalformedDoc, Doc(<<StoredLowConfig>>)} :
        InitWith(AbsentDoc, AbsentDoc, cdoc)

NextSettings ==
    \/ UserIdle(SettingsIdle /\ \E s \in RefreshStrings : RefreshIntervalChanged(s))
    \/ UserIdle(SettingsIdle /\ \E s \in MaxLogsStrings : MaxLogsChanged(s))
    \/ UserIdle(SettingsIdle /\ \E theme \in Themes : ThemeChanged(theme))
    \/ UserIdle(SettingsIdle /\ SaveSettings)
    \/ Eager(OnMsg(TasksLoaded))
    \/ Eager(OnMsg(LogsLoaded))
    \/ Eager(OnMsg(ConfigLoaded))
    \/ Eager(OnCmd(LoadTasks))
    \/ Eager(OnCmd(LoadLogs))
    \/ Eager(OnCmd(LoadConfig))
    \/ Eager(OnCmd(SaveConfig))
    \/ Eager(OnMsg(ConfigSaved))
    \/ Eager(\E i \in 1..Len(notifications) : CloseNotification(i))

SpecSettings == InitSettings /\ [][NextSettings]_vars

\* The notification queue: nobody closes the notifications as they come.
\* The user presses Create on the empty form (a Warning), saves the settings
\* (a Success when config.json is written), closes single notifications and
\* clears the queue, each time after the work of the Message before is done.
Quiet == cmds = EmptyBag /\ msgs = EmptyBag

Noted(A) == Quiet /\ A /\ intents' = intents + 1 /\ intents' <= MaxNoteIntents

InitNotes == InitWith(AbsentDoc, AbsentDoc, AbsentDoc)

NextNotes ==
    \/ Noted(CreateTask)
    \/ Noted(SaveSettings)
    \/ Noted(\E i \in 1..Len(notifications) : CloseNotification(i))
    \/ Noted(Len(notifications) > 0 /\ ClearNotifications)
    \/ Eager(OnMsg(TasksLoaded))
    \/ Eager(OnMsg(LogsLoaded))
    \/ Eager(OnMsg(ConfigLoaded))
    \/ Eager(OnCmd(LoadTasks))
    \/ Eager(OnCmd(LoadLogs))
    \/ Eager(OnCmd(LoadConfig))
    \/ Eager(OnCmd(SaveConfig))
    \/ Eager(OnMsg(ConfigSaved))

SpecNotes == InitNotes /\ [][NextNotes]_vars

\* The task list of the view: the stored task comes from earlier runs with
\* any counts up to MaxCount, or with any of the intervals below; the view
\* shows success_rate(task) and format_duration(task.interval_seconds) for
\* every task in memory while the scheduler runs the task.
StoredCounted(sc, fc) ==
    [StoredActive EXCEPT !.success_count = sc, !.failure_count = fc]

StoredEvery(seconds) ==
    [StoredActive EXCEPT !.interval_seconds = seconds]

Intervals ==
    {1, 45, 59, 60, 61, 119, 120, 3599, 3600, 3601, 7199, 7200, 86399, 86400,
     86401, 172799, 172800}

InitStats ==
    \E sc \in 0..MaxCount, fc \in 0..MaxCount :
        InitWith(Doc(<<StoredCounted(sc, fc)>>), AbsentDoc, AbsentDoc)

InitDurations ==
    \E seconds \in Intervals :
        InitWith(Doc(<<StoredEvery(seconds)>>), AbsentDoc, AbsentDoc)

NextView ==
    \/ RuntimeIdle(CheckScheduledTasks)
    \/ RuntimeIdle(ScheduledExecuteTask)
    \/ RuntimeIdle(ExecutionEnds)
    \/ Eager(OnMsg(TasksLoaded))
    \/ Eager(OnMsg(LogsLoaded))
    \/ Eager(OnMsg(ConfigLoaded))
    \/ Eager(OnCmd(LoadTasks))
    \/ Eager(OnCmd(LoadLogs))
    \/ Eager(OnCmd(LoadConfig))
    \/ Eager(OnCmd(SaveTaskRead))
    \/ Eager(OnCmd(SaveTaskWrite))
    \/ Eager(OnCmd(SaveLogs))
    \/ Eager(OnMsg(Tick))
    \/ Eager(OnMsg(TaskSaved))
    \/ Eager(\E i \in 1..Len(notifications) : CloseNotification(i))

SpecStats == InitStats /\ [][NextView]_vars

SpecDurations == InitDurations /\ [][NextView]_vars

\* The stored session: TaskWithMe::new has performed the three loads and
\* nothing orders their results. The task list is shown as soon as TasksLoaded
\* has come, so the user can run, toggle and delete the stored task while
\* load_logs is still on its way, and while the futures of an earlier Message
\* are. No task is created: every id in sight is the id of the stored task.
InitBoot == InitWith(Doc(<<StoredActive>>), Doc(StoredLogs(MaxExecs)), AbsentDoc)

NextBoot ==
    \/ Outside(Calm /\ ManualExecuteTask)
    \/ Outside(Calm /\ \E id \in Ids(tasks) : ToggleTask(id))
    \/ Outside(Calm /\ \E id \in Ids(tasks) : DeleteTask(id))
    \/ Runtime(OnCmd(DeleteTaskRead))
    \/ Runtime(OnCmd(DeleteTaskWrite))
    \/ Eager(OnMsg(TaskDeleted))
    \/ Runtime(ExecutionEnds)
    \/ Runtime(OnMsg(TasksLoaded))
    \/ Runtime(OnMsg(LogsLoaded))
    \/ Runtime(OnMsg(ConfigLoaded))
    \/ Runtime(OnCmd(LoadTasks))
    \/ Runtime(OnCmd(LoadLogs))
    \/ Runtime(OnCmd(LoadConfig))
    \/ Runtime(OnCmd(SaveTaskRead))
    \/ Runtime(OnCmd(SaveTaskWrite))
    \/ Eager(OnCmd(SaveLogs))
    \/ Eager(OnMsg(Tick))
    \/ Eager(OnMsg(TaskSaved))
    \/ Eager(\E i \in 1..Len(notifications) : CloseNotification(i))

SpecBoot == InitBoot /\ [][NextBoot]_vars

\* The scheduler under fairness. The notification queue is left to fill up to
\* its cap: no step waits for the user to close a notification. The user only
\* toggles tasks, which is how a second task becomes due next to the first.
Ready == Started /\ Flushed /\ Synced

Polled(A) == Ready /\ A /\ UNCHANGED intents /\ Bounded(MaxRacedExecs)'
Pressed(A) == Ready /\ A /\ intents' = intents + 1 /\ Bounded(MaxRacedExecs)'

\* a tick of the subscription; the requests of the tick before it have been
\* handled, the period being a second at least
Scan == ~Waiting("ExecuteTask") /\ CheckScheduledTasks

\* the ExecuteTask messages of one task arrive
ScheduledExecuteTaskOf(id) ==
    \E m \in BagToSet(msgs) :
        /\ m.msg = "ExecuteTask"
        /\ m.id = id
        /\ ExecuteTask(m.id)
        /\ msgs' = Finish(msgs, m)

NextLive ==
    \/ Pressed(\E id \in Ids(tasks) : ToggleTask(id))
    \/ Polled(Scan)
    \/ Polled(AdvanceTime)
    \/ Polled(ScheduledExecuteTask)
    \/ Polled(ExecutionEnds)
    \/ Eager(OnMsg(TasksLoaded))
    \/ Eager(OnMsg(LogsLoaded))
    \/ Eager(OnMsg(ConfigLoaded))
    \/ Eager(OnCmd(LoadTasks))
    \/ Eager(OnCmd(LoadLogs))
    \/ Eager(OnCmd(LoadConfig))
    \/ Eager(OnCmd(SaveTaskRead))
    \/ Eager(OnCmd(SaveTaskWrite))
    \/ Eager(OnCmd(SaveLogs))
    \/ Eager(OnMsg(Tick))
    \/ Eager(OnMsg(TaskSaved))

\* time::every of the subscription fires at every refresh_interval, the
\* runtime hands every Message it holds to update, and the executor polls
\* every future of the persistence layer until it completes. An execution
\* may hang, and neither the user nor the clock is required to do anything.
Fairness ==
    /\ WF_vars(Polled(Scan))
    /\ \A id \in Ids(InitRunTasks) : WF_vars(Polled(ScheduledExecuteTaskOf(id)))
    /\ WF_vars(Eager(OnMsg(TasksLoaded)))
    /\ WF_vars(Eager(OnMsg(LogsLoaded)))
    /\ WF_vars(Eager(OnMsg(ConfigLoaded)))
    /\ WF_vars(Eager(OnCmd(LoadTasks)))
    /\ WF_vars(Eager(OnCmd(LoadLogs)))
    /\ WF_vars(Eager(OnCmd(LoadConfig)))
    /\ WF_vars(Eager(OnCmd(SaveTaskRead)))
    /\ WF_vars(Eager(OnCmd(SaveTaskWrite)))
    /\ WF_vars(Eager(OnCmd(SaveLogs)))
    /\ WF_vars(Eager(OnMsg(Tick)))
    /\ WF_vars(Eager(OnMsg(TaskSaved)))

SpecLive == InitRun /\ [][NextLive]_vars /\ Fairness

\* ------------------------------------------------------------ properties
\* the executions of task id that were dispatched and whose TaskExecuted has
\* not been handled
ExecutionsInFlight(id) ==
    LET mine == {c \in BagToSet(cmds) : c.op = "execute_task" /\ c.task.id = id}
    IN  IF mine = {} THEN 0 ELSE BagCardinality([c \in mine |-> cmds[c]])

ExecutingIds == {c.task.id : c \in {d \in BagToSet(cmds) : d.op = "execute_task"}}

\* a notification was appended to the queue q, giving q2
Appended(q, q2, level) ==
    \/ q2 = Append(q, level)
    \/ Len(q) = NotificationCap /\ q2 = Append(Tail(q), level)

\* C1: whatever the order of manual ExecuteTask messages, CheckScheduledTasks
\* ticks and TaskExecuted results, no task id has two executions in flight.
C1_OneExecutionPerTask ==
    \A id \in ExecutingIds : ExecutionsInFlight(id) = 1

\* C1, witness: executions of two different tasks are in flight together.
C1_Witness ==
    \E a \in ExecutingIds : \E b \in ExecutingIds : a # b

\* C2: ExecuteTask(id) for an id in running_tasks dispatches nothing, leaves
\* running_tasks, tasks and logs as they are and appends one Warning.
C2_RejectsRunningTask ==
    [][\A id \in Ids(tasks) \cup {running_tasks[i] : i \in 1..Len(running_tasks)} :
          (Contains(running_tasks, id) /\ ExecuteTask(id)) =>
              /\ cmds' = cmds
              /\ running_tasks' = running_tasks
              /\ tasks' = tasks
              /\ logs' = logs
              /\ Appended(notifications, notifications', "Warning")]_vars

\* C2, witness: a task is running and the last notification is the Warning of
\* a rejected ExecuteTask.
C2_Witness ==
    /\ running_tasks # <<>>
    /\ notifications # <<>>
    /\ notifications[Len(notifications)] = "Warning"

\* C3: running_tasks holds exactly the ids whose execution was dispatched and
\* whose result has not been handled, each once.
C3_RunningIffInFlight ==
    /\ {running_tasks[i] : i \in 1..Len(running_tasks)} = ExecutingIds
    /\ \A i \in 1..Len(running_tasks) : \A j \in 1..Len(running_tasks) :
           running_tasks[i] = running_tasks[j] => i = j

\* C3, witness: a result has been handled and another execution is in flight.
C3_Witness ==
    /\ nextLogId > 1
    /\ running_tasks # <<>>

\* C4: every task in memory is active exactly when it has a next_run.
C4_ActiveIffNextRun ==
    \A i \in 1..Len(tasks) : tasks[i].is_active <=> tasks[i].next_run # None

\* C4, witness: a task that has run is in memory switched off, so it was
\* toggled from active to inactive.
C4_Witness ==
    \E i \in 1..Len(tasks) :
        /\ ~tasks[i].is_active
        /\ tasks[i].last_run # None
        /\ tasks[i].next_run = None

\* the task of ts with this id
TaskOf(ts, id) == ts[Position(ts, id)]

\* no task present before and after the step has lost a count
CountsKept(ts, ts2) ==
    \A id \in Ids(ts) \cap Ids(ts2) :
        /\ TaskOf(ts2, id).success_count >= TaskOf(ts, id).success_count
        /\ TaskOf(ts2, id).failure_count >= TaskOf(ts, id).failure_count

\* C7: no step lowers the success_count or failure_count of a task, in memory
\* or in the tasks document.
C7_CountsNeverDecrease ==
    [][/\ CountsKept(tasks, tasks')
       /\ CountsKept(TasksFromJson(tasksDoc.content),
                     TasksFromJson(tasksDoc'.content))]_vars

\* C8: handling an Ok result of a task that is active at that moment sets its
\* next_run to the time of handling plus interval_seconds, whatever next_run
\* was; an inactive task keeps next_run absent.
C8_NextRunFromCompletion ==
    [][\A c \in BagToSet(cmds) : \A result \in ExecResults :
          (/\ c.op = "execute_task"
           /\ result.ok
           /\ c.task.id \in Ids(tasks)
           /\ TaskExecuted(c, result)) =>
              LET before == TaskOf(tasks, c.task.id)
                  after == TaskOf(tasks', c.task.id)
              IN  IF before.is_active
                  THEN after.next_run = Some(now + before.interval_seconds)
                  ELSE after.next_run = None]_vars

\* C8, witness: a run handled late: the task was due at 1, its result was
\* handled at 2, and next_run is 2 + interval rather than 1 + interval.
C8_Witness ==
    \E i \in 1..Len(tasks) :
        /\ tasks[i].id = StoredActive.id
        /\ tasks[i].is_active
        /\ now = StoredActive.next_run[1] + 1
        /\ tasks[i].last_run = Some(now)
        /\ tasks[i].next_run = Some(now + tasks[i].interval_seconds)

\* C9: a created task stays in the tasks document until it is explicitly
\* deleted: no step removes an id from the document unless a delete_task for
\* that id is being carried out.
C9_CreatedTaskStays ==
    [][\A id \in Ids(TasksFromJson(tasksDoc.content)) :
          \/ id \in Ids(TasksFromJson(tasksDoc'.content))
          \/ \E c \in BagToSet(cmds) : c.op = "delete_task" /\ c.id = id]_vars

\* C5: the log collection in memory never holds more than config.max_logs
\* entries.
C5_LogsWithinMaxLogs == Len(logs) <= config.max_logs

\* C6: a completion that appends to a collection holding max_logs entries
\* removes the oldest entry; the others keep their order and the new entry
\* comes last.
C6_EvictsOldest ==
    [][\A c \in BagToSet(cmds) : \A result \in ExecResults :
          (/\ c.op = "execute_task"
           /\ result.ok
           /\ c.task.id \in Ids(tasks)
           /\ Len(logs) = config.max_logs
           /\ TaskExecuted(c, result)) =>
              /\ Len(logs') = Len(logs)
              /\ \A i \in 1..(Len(logs) - 1) : logs'[i] = logs[i + 1]
              /\ logs'[Len(logs')].task_id = c.task.id
              /\ logs'[Len(logs')].timestamp = now
              /\ \A i \in 1..Len(logs) : logs'[Len(logs')].id # logs[i].id]_vars

\* C6, witness: two completions on a full collection: the two oldest stored
\* entries are gone, the others follow in order, the two new entries are last.
C6_Witness ==
    /\ Len(logs) = config.max_logs
    /\ Len(logs) = MinMaxLogs
    /\ \A i \in 1..(Len(logs) - 2) : logs[i] = StoredLog(i + 2)
    /\ logs[Len(logs) - 1].id = 1
    /\ logs[Len(logs)].id = 2

\* the form does not describe a task: no title, no command, or an interval
\* that is not an integer greater than 0
FormInvalid ==
    \/ title_input = <<>>
    \/ command_input = <<>>
    \/ ParseUnsigned(interval_input) = ParseErr
    \/ ParseUnsigned(interval_input) = 0

\* C10: CreateTask on an invalid form appends one Warning, starts no future
\* and leaves tasks, logs, running_tasks, the form inputs and the documents
\* as they are.
C10_InvalidCreateRejected ==
    [][(FormInvalid /\ CreateTask) =>
          /\ Appended(notifications, notifications', "Warning")
          /\ cmds' = cmds
          /\ tasks' = tasks
          /\ logs' = logs
          /\ running_tasks' = running_tasks
          /\ formVars' = formVars
          /\ docVars' = docVars]_vars

\* C10, witness: Create was pressed with title and command filled and the
\* interval "0" while a task was running: the Warning is there, the inputs
\* and the running set are as they were.
C10_Witness ==
    /\ title_input # <<>>
    /\ command_input # <<>>
    /\ interval_input = <<"0">>
    /\ running_tasks # <<>>
    /\ notifications # <<>>
    /\ notifications[Len(notifications)] = "Warning"

\* C11: ToggleTask(id) on a task in memory flips is_active, sets next_run to
\* now + interval_seconds when the task is now active and clears it otherwise,
\* starts a save of exactly that task, and leaves every other task, the logs
\* and running_tasks as they are.
C11_ToggleFlipsAndSaves ==
    [][\A id \in Ids(tasks) :
          ToggleTask(id) =>
              LET pos == Position(tasks, id)
                  before == tasks[pos]
                  after == tasks'[pos]
              IN  /\ Len(tasks') = Len(tasks)
                  /\ after.is_active = ~before.is_active
                  /\ after.next_run = IF after.is_active
                                      THEN Some(now + before.interval_seconds)
                                      ELSE None
                  /\ after = [before EXCEPT !.is_active = after.is_active,
                                            !.next_run = after.next_run]
                  /\ \A i \in 1..Len(tasks) : i # pos => tasks'[i] = tasks[i]
                  /\ cmds' = cmds (+) SetToBag({SaveTaskCmd(after)})
                  /\ logs' = logs
                  /\ running_tasks' = running_tasks]_vars

\* C11, witness: the stored inactive task has just been switched on while the
\* other task runs: it is active in memory, due at now + interval, and the save
\* of that very task has started.
C11_Witness ==
    /\ StoredInactive.id \in Ids(tasks)
    /\ TaskOf(tasks, StoredInactive.id).is_active
    /\ TaskOf(tasks, StoredInactive.id).next_run =
           Some(now + StoredInactive.interval_seconds)
    /\ running_tasks # <<>>
    /\ \E c \in BagToSet(cmds) :
           /\ c.op = "save_task"
           /\ c.phase = "start"
           /\ c.task = TaskOf(tasks, StoredInactive.id)

\* C12: DeleteTask(id) removes the task from memory in the step that starts
\* the delete_task future: right after it no task in memory has that id.
C12_DeleteRemovesFromMemory ==
    [][\A id \in Ids(tasks) : DeleteTask(id) => id \notin Ids(tasks')]_vars

\* the steps of a deletion: the DeleteTask message, the two halves of
\* delete_task, the TaskDeleted result, the reload and its TasksLoaded
DeletionStep ==
    \/ \E id \in Ids(tasks) : DeleteTask(id)
    \/ \E c \in BagToSet(cmds) :
           \/ DeleteTaskRead(c)
           \/ DeleteTaskWrite(c)
           \/ LoadTasks(c)
    \/ \E m \in BagToSet(msgs) :
           \/ TaskDeleted(m)
           \/ TasksLoaded(m)

\* C13: no step of a deletion changes the logs in memory or logs.json: the
\* entries of the deleted task stay.
C13_DeleteKeepsLogs ==
    [][DeletionStep => (logs' = logs /\ logsDoc' = logsDoc)]_vars

\* C13, witness: the task that ran is deleted from tasks.json and from memory
\* and its log entry is still in memory and in logs.json.
C13_Witness ==
    /\ tasksDoc.state = "ok"
    /\ StoredActive.id \notin Ids(TasksFromJson(tasksDoc.content))
    /\ StoredActive.id \notin Ids(tasks)
    /\ \E i \in 1..Len(logs) : logs[i].task_id = StoredActive.id
    /\ logsDoc.state = "ok"
    /\ \E i \in 1..Len(logsDoc.content) : logsDoc.content[i].task_id = StoredActive.id

\* C14: every TaskExecuted with an Ok result appends one log entry carrying
\* the task id and the result's success flag, output and duration, and, on
\* the task in memory, sets last_run and adds 1 to success_count when success
\* is true and to failure_count otherwise, leaving the other count alone.
C14_CompletionCountsAndLogs ==
    [][\A c \in BagToSet(cmds) : \A result \in ExecResults :
          (/\ c.op = "execute_task"
           /\ result.ok
           /\ TaskExecuted(c, result)) =>
              /\ logs' # <<>>
              /\ logs'[Len(logs')].task_id = c.task.id
              /\ logs'[Len(logs')].success = result.success
              /\ logs'[Len(logs')].output = result.output
              /\ logs'[Len(logs')].duration_ms = result.duration_ms
              /\ \A i \in 1..Len(logs) : logs'[Len(logs')].id # logs[i].id
              /\ Len(logs') = IF Len(logs) + 1 > config.max_logs
                              THEN Len(logs)
                              ELSE Len(logs) + 1
              /\ c.task.id \in Ids(tasks) =>
                     LET before == TaskOf(tasks, c.task.id)
                         after == TaskOf(tasks', c.task.id)
                         succ == IF result.success THEN 1 ELSE 0
                     IN  /\ after.last_run = Some(now)
                         /\ after.success_count = before.success_count + succ
                         /\ after.failure_count = before.failure_count + (1 - succ)]_vars

\* C15: TaskExecuted(id, Err) removes id from running_tasks, adds one Error
\* notification, starts no future, and leaves tasks and logs as they are.
C15_ExecutionErrorChangesNothing ==
    [][\A c \in BagToSet(cmds) :
          (c.op = "execute_task" /\ TaskExecuted(c, ExecErr)) =>
              /\ ~Contains(running_tasks', c.task.id)
              /\ LET Others(tid) == tid # c.task.id
                 IN  running_tasks' = SelectSeq(running_tasks, Others)
              /\ Appended(notifications, notifications', "Error")
              /\ cmds' (+) SetToBag({c}) = cmds
              /\ tasks' = tasks
              /\ logs' = logs
              /\ docVars' = docVars]_vars

\* C15, witness: the only execution so far ended in Err: nothing runs, the
\* Error notification is there, the task is in memory and no log was written.
C15_Witness ==
    /\ nextLogId = 1
    /\ tasks # <<>>
    /\ running_tasks = <<>>
    /\ logs = <<>>
    /\ ~Pending("execute_task")
    /\ notifications # <<>>
    /\ notifications[Len(notifications)] = "Error"

\* how many ExecuteTask(id) messages wait for update
RequestsFor(bag, id) == CopiesIn(ExecuteTaskMsg(id), bag)

\* C16: a CheckScheduledTasks tick emits one ExecuteTask(id) for every task
\* that is active, has a next_run that now has reached, and is not in
\* running_tasks, and emits nothing else.
C16_TickRequestsExactlyDueTasks ==
    [][CheckScheduledTasks =>
          /\ \A i \in 1..Len(tasks) :
                 RequestsFor(msgs', tasks[i].id) - RequestsFor(msgs, tasks[i].id) =
                     IF /\ tasks[i].is_active
                        /\ tasks[i].next_run # None
                        /\ now >= tasks[i].next_run[1]
                        /\ ~Contains(running_tasks, tasks[i].id)
                     THEN 1
                     ELSE 0
          /\ \A m \in BagToSet(msgs') :
                 CopiesIn(m, msgs') > CopiesIn(m, msgs) =>
                     m.msg = "ExecuteTask" /\ m.id \in Ids(tasks)]_vars

\* C16, witness: one tick found both stored tasks due: a request for each
\* waits for update and neither runs yet.
C16_Witness ==
    /\ RequestsFor(msgs, StoredActive.id) = 1
    /\ RequestsFor(msgs, StoredInactive.id) = 1
    /\ running_tasks = <<>>

\* C17: handling CheckScheduledTasks changes nothing but the requests it
\* emits: tasks, logs, config, running_tasks, notifications, the futures and
\* the documents stay as they are.
C17_TickHasNoSideEffects ==
    [][CheckScheduledTasks =>
          /\ appVars' = appVars
          /\ cmds' = cmds
          /\ docVars' = docVars
          /\ formVars' = formVars
          /\ settingsVars' = settingsVars]_vars

\* C17, witness: a tick has emitted the request for the stored active task,
\* which is due, and the task is not in running_tasks.
C17_Witness ==
    /\ RequestsFor(msgs, StoredActive.id) >= 1
    /\ ~Contains(running_tasks, StoredActive.id)
    /\ TaskOf(tasks, StoredActive.id) = TaskFromJson(StoredActive)

\* what tasks.json holds
StoredTasks == TasksFromJson(tasksDoc.content)

\* C18: when the write started by an intent fails, an Error notification is
\* added and the change the intent made in memory is undone.  With persistence
\* running as soon as it can, the values before the intent are the ones the
\* document still holds: after TaskSaved(Err) every task in memory has the
\* is_active and next_run of tasks.json, and after ConfigSaved(Err) the config
\* in memory is the one of config.json.
C18_FailedWriteDiscardsChange ==
    [][\A m \in BagToSet(msgs) :
          /\ (m.msg = "TaskSaved" /\ m.res # "Ok" /\ TaskSaved(m)) =>
                 /\ Appended(notifications, notifications', "Error")
                 /\ \A id \in Ids(tasks') \cap Ids(StoredTasks) :
                        /\ TaskOf(tasks', id).is_active = TaskOf(StoredTasks, id).is_active
                        /\ TaskOf(tasks', id).next_run = TaskOf(StoredTasks, id).next_run
          /\ (m.msg = "ConfigSaved" /\ m.res # "Ok" /\ ConfigSaved(m)) =>
                 /\ Appended(notifications, notifications', "Error")
                 /\ configDoc.state = "ok" => config' = configDoc.content[1]]_vars

\* enum NotificationLevel
NotificationLevels == {"Info", "Success", "Warning", "Error"}

\* the Messages that carry the Result of a load, a save or a delete
ResultMessages ==
    {"TasksLoaded", "LogsLoaded", "ConfigLoaded", "TaskSaved", "TaskDeleted",
     "ConfigSaved"}

\* update handles the Message m
Handles(m) ==
    \/ TasksLoaded(m)
    \/ LogsLoaded(m)
    \/ ConfigLoaded(m)
    \/ TaskSaved(m)
    \/ TaskDeleted(m)
    \/ ConfigSaved(m)

\* C19: handling the Err of a load, a save, a delete or an execution adds a
\* notification and leaves tasks, logs and config in memory as they were.
C19_FailuresNotifyAndKeepState ==
    [][/\ \A m \in BagToSet(msgs) :
              (m.msg \in ResultMessages /\ m.res # "Ok" /\ Handles(m)) =>
                  /\ \E level \in NotificationLevels :
                         Appended(notifications, notifications', level)
                  /\ tasks' = tasks
                  /\ logs' = logs
                  /\ config' = config
       /\ \A c \in BagToSet(cmds) :
              (c.op = "execute_task" /\ TaskExecuted(c, ExecErr)) =>
                  /\ \E level \in NotificationLevels :
                         Appended(notifications, notifications', level)
                  /\ tasks' = tasks
                  /\ logs' = logs
                  /\ config' = config]_vars

\* the configuration the program falls back to
FallbackConfig ==
    [refresh_interval |-> 5, max_logs |-> 500, theme |-> "Dark", log_to_file |-> TRUE]

\* C20: on an absent document load_tasks and load_logs return Ok with an
\* empty collection and leave the document absent; load_config returns Ok
\* with the default configuration and writes it to config.json.
C20_AbsentDocuments ==
    [][\A c \in BagToSet(cmds) :
          /\ (tasksDoc.state = "absent" /\ LoadTasks(c)) =>
                 /\ msgs' = msgs (+) SetToBag({TasksLoadedMsg("Ok", <<>>)})
                 /\ docVars' = docVars
          /\ (logsDoc.state = "absent" /\ LoadLogs(c)) =>
                 /\ msgs' = msgs (+) SetToBag({LogsLoadedMsg("Ok", <<>>)})
                 /\ docVars' = docVars
          /\ (configDoc.state = "absent" /\ LoadConfig(c)) =>
                 /\ msgs' = msgs (+) SetToBag({ConfigLoadedMsg("Ok", FallbackConfig)})
                 /\ configDoc' = Doc(<<FallbackConfig>>)
                 /\ tasksDoc' = tasksDoc
                 /\ logsDoc' = logsDoc]_vars

\* C20, witness: the three loads of a first start have come back: no task, no
\* log, the default configuration in memory, config.json written and
\* tasks.json and logs.json still absent.
C20_Witness ==
    /\ cmds = EmptyBag
    /\ msgs = EmptyBag
    /\ intents = 0
    /\ tasks = <<>>
    /\ logs = <<>>
    /\ config = FallbackConfig
    /\ tasksDoc.state = "absent"
    /\ logsDoc.state = "absent"
    /\ configDoc = Doc(<<FallbackConfig>>)

\* C21: load_tasks on a tasks.json that does not parse ends with the
\* Serialization error and with no collection, and update leaves tasks as it
\* is when it handles that error.
C21_MalformedLoadIsAnError ==
    [][/\ \A c \in BagToSet(cmds) :
              (tasksDoc.state = "malformed" /\ LoadTasks(c)) =>
                  /\ \E m \in BagToSet(msgs') :
                         /\ m.msg = "TasksLoaded"
                         /\ m.res = "Serialization"
                         /\ msgs' = msgs (+) SetToBag({m})
                  /\ docVars' = docVars
       /\ \A m \in BagToSet(msgs) :
              (m.msg = "TasksLoaded" /\ m.res = "Serialization" /\ TasksLoaded(m)) =>
                  tasks' = tasks]_vars

\* C21, witness: the task was paused, tasks.json was corrupted before the
\* reload read it, and the reload has failed: the paused task is still in
\* memory, with the Error notification.
C21_Witness ==
    /\ tasksDoc = MalformedDoc
    /\ Ids(tasks) = {StoredActive.id, StoredInactive.id}
    /\ ~tasks[1].is_active
    /\ notifications = <<"Error">>
    /\ cmds = EmptyBag
    /\ msgs = EmptyBag

\* C22: on a tasks.json that does not parse, save_task and delete_task end
\* with the Serialization error, and no step writes over the document.
C22_MalformedIsNeverOverwritten ==
    [][/\ \A c \in BagToSet(cmds) :
              /\ (tasksDoc.state = "malformed" /\ SaveTaskRead(c)) =>
                     /\ cmds' = cmds (-) SetToBag({c})
                     /\ msgs' = msgs (+) SetToBag({TaskSavedMsg("Serialization")})
              /\ (tasksDoc.state = "malformed" /\ DeleteTaskRead(c)) =>
                     /\ cmds' = cmds (-) SetToBag({c})
                     /\ msgs' = msgs (+) SetToBag({TaskDeletedMsg("Serialization")})
       /\ tasksDoc.state = "malformed" => tasksDoc' = tasksDoc]_vars

\* C23: a save_task(t) that no other save_task or delete_task overlaps turns
\* a well-formed tasks.json D into D with the entry of t's id replaced by t
\* where it stands, or into D followed by t when D has no entry of that id.
C23_SaveReplacesOrAppends ==
    [][\A c \in BagToSet(cmds) :
          (/\ tasksDoc.state = "ok"
           /\ \A d \in BagToSet(cmds) :
                  d.op \in {"save_task", "delete_task"} => d = c /\ cmds[c] = 1
           /\ SaveTaskWrite(c)) =>
              LET D == tasksDoc.content
                  D2 == tasksDoc'.content
                  t == TaskToJson(c.task)
              IN  /\ tasksDoc'.state = "ok"
                  /\ IF \E i \in 1..Len(D) : D[i].id = t.id
                     THEN /\ Len(D2) = Len(D)
                          /\ \A i \in 1..Len(D) :
                                 D2[i] = IF D[i].id = t.id THEN t ELSE D[i]
                     ELSE D2 = D \o <<t>>]_vars

\* C23, witness: the stored task was run and saved over its entry, and a
\* created task was saved behind it.
C23_Witness ==
    /\ tasksDoc.state = "ok"
    /\ Len(tasksDoc.content) = 2
    /\ tasksDoc.content[1].id = StoredInactive.id
    /\ tasksDoc.content[1].last_run # None
    /\ tasksDoc.content[2].id # StoredInactive.id

\* the entry of a task id in the content of tasks.json, None when it has none
EntryOf(D, id) ==
    LET Mine(t) == t.id = id IN SelectSeq(D, Mine)

\* C24: save_task and delete_task interleave without losing one another:
\* the write of save_task(t) leaves the entry of every other id as the
\* document holds it, and so does the write of delete_task(id), so that what
\* a finished save or delete put into tasks.json is never undone by a write
\* for another task.
C24_WritesKeepOtherEntries ==
    [][\A c \in BagToSet(cmds) :
          LET D == tasksDoc.content
              D2 == tasksDoc'.content
          IN  /\ SaveTaskWrite(c) =>
                     \A id \in (Ids(D) \cup Ids(D2)) \ {c.task.id} :
                         EntryOf(D2, id) = EntryOf(D, id)
              /\ DeleteTaskWrite(c) =>
                     \A id \in (Ids(D) \cup Ids(D2)) \ {c.id} :
                         EntryOf(D2, id) = EntryOf(D, id)]_vars

\* C25: in every state the configuration in memory has a refresh_interval of
\* at least 1 and a max_logs of at least 10.
C25_ConfigWithinMinimums ==
    /\ config.refresh_interval >= 1
    /\ config.max_logs >= 10

\* C26: once the loads of the start have come back, a step that changes the
\* configuration in memory hands a save_config of the new configuration to
\* the executor in the same step.
C26_ConfigChangesAreSaved ==
    [][(Started /\ config' # config) =>
          cmds' = cmds (+) SetToBag({SaveConfigCmd(config')})]_vars

\* C27: the notification queue never holds more than 10 entries, and a
\* notification added to a queue of 10 takes the place of the oldest: the
\* other nine keep their order and the new one comes last.
C27_QueueHoldsTenEvictsOldest ==
    /\ [](Len(notifications) <= 10)
    /\ [][(Len(notifications) = 10 /\ (CreateTask \/ \E m \in BagToSet(msgs) : ConfigSaved(m))) =>
             \E level \in NotificationLevels :
                 notifications' = Tail(notifications) \o <<level>>]_vars

\* C27, witness: eleven Messages were sent and each has added its
\* notification (none was closed, or fewer than 10 would be left); the queue
\* holds 10 of them, of both kinds.
C27_Witness ==
    /\ intents = 11
    /\ Quiet
    /\ Len(notifications) = 10
    /\ notifications[10] = "Warning"
    /\ \E i \in 1..9 : notifications[i] = "Success"

\* C28: when the save_logs of a completion has written, logs.json holds the
\* log collection of the memory as the completion left it, and no more than
\* max_logs entries.
C28_SavedLogsWithinMaxLogs ==
    [][\A c \in BagToSet(cmds) :
          SaveLogs(c) =>
              /\ logsDoc' = Doc(logs)
              /\ Len(logsDoc'.content) <= config.max_logs]_vars

\* the f32 r is exactly the fraction 100 * sc / total
ExactPercent(r, sc, total) ==
    IF sc = 0 THEN r = F32Zero
    ELSE r # F32Zero /\ r[1] * total = 100 * sc * Pow2(0 - r[2])

\* the f32 r is within one part in 2^22 of the fraction 100 * sc / total
NearPercent(r, sc, total) ==
    IF sc = 0 THEN r = F32Zero
    ELSE /\ r # F32Zero
         /\ LET exact == 100 * sc * Pow2(0 - r[2])
                got == r[1] * total
                diff == IF got >= exact THEN got - exact ELSE exact - got
            IN  diff <= exact \div Pow2(22)

\* C29 as stated: for every task, success_rate is 0 when the task never ran
\* and otherwise equals success_count / (success_count + failure_count) * 100.
C29_RateEqualsFraction ==
    \A i \in 1..Len(tasks) :
        LET total == tasks[i].success_count + tasks[i].failure_count
        IN  IF total = 0 THEN success_rate(tasks[i]) = F32Zero
            ELSE ExactPercent(success_rate(tasks[i]), tasks[i].success_count, total)

\* C29, amended: for every task, success_rate is 0 when the task never ran
\* and otherwise the f32 result of the division and the multiplication, which
\* is within one part in 2^22 of success_count / (success_count +
\* failure_count) * 100.
C29_RateNearFraction ==
    \A i \in 1..Len(tasks) :
        LET total == tasks[i].success_count + tasks[i].failure_count
        IN  IF total = 0 THEN success_rate(tasks[i]) = F32Zero
            ELSE NearPercent(success_rate(tasks[i]), tasks[i].success_count, total)

\* C29, witness: a task with 7 successes and 3 failures is shown with the
\* rate 70.0 (9175040 * 2^-17), after the scheduler has run it.
C29_Witness ==
    \E i \in 1..Len(tasks) :
        /\ tasks[i].success_count = 7
        /\ tasks[i].failure_count = 3
        /\ tasks[i].last_run = Some(now)
        /\ success_rate(tasks[i]) = <<9175040, 0 - 17>>

\* the text shows n with its unit, in decimal digits without leading zeros
ShownAs(text, n, unit) ==
    /\ Len(text) >= 2
    /\ text[Len(text)] = unit
    /\ ParseUnsigned(SubSeq(text, 1, Len(text) - 1)) = n
    /\ text[1] # "+"
    /\ Len(text) > 2 => text[1] # "0"

\* C30: for every task, format_duration of its interval shows the seconds
\* below a minute, the whole minutes below an hour, the whole hours below a
\* day and the whole days from there on.
C30_DurationInLargestUnit ==
    \A i \in 1..Len(tasks) :
        LET s == tasks[i].interval_seconds
            text == format_duration(s)
        IN  /\ s < 60 => ShownAs(text, s, "s")
            /\ (60 <= s /\ s < 3600) => ShownAs(text, s \div 60, "m")
            /\ (3600 <= s /\ s < 86400) => ShownAs(text, s \div 3600, "h")
            /\ s >= 86400 => ShownAs(text, s \div 86400, "d")

\* C30, witness: a task that runs every 172799 seconds, one second short of
\* two days, is in the list and is shown with "1d".
C30_Witness ==
    \E i \in 1..Len(tasks) :
        /\ tasks[i].interval_seconds = 172799
        /\ tasks[i].last_run = Some(now)
        /\ format_duration(tasks[i].interval_seconds) = <<"1", "d">>

\* C31: a TaskExecuted result, Ok or Err, for a task in memory or not, takes
\* its id out of running_tasks; an id leaves running_tasks in no other way,
\* so it stays for as long as the result has not come; and while it is there
\* ExecuteTask for it dispatches nothing.
C31_ResultFreesRunningId ==
    [][/\ \A c \in BagToSet(cmds) : \A result \in ExecResults :
              (c.op = "execute_task" /\ TaskExecuted(c, result)) =>
                  ~Contains(running_tasks', c.task.id)
       /\ \A i \in 1..Len(running_tasks) :
              ~Contains(running_tasks', running_tasks[i]) =>
                  \E c \in BagToSet(cmds) :
                      /\ c.op = "execute_task"
                      /\ c.task.id = running_tasks[i]
                      /\ CopiesIn(c, cmds') < CopiesIn(c, cmds)
       /\ \A i \in 1..Len(running_tasks) :
              ExecuteTask(running_tasks[i]) =>
                  /\ cmds' = cmds
                  /\ running_tasks' = running_tasks]_vars

\* C31, witness: the stored task was dispatched by the scheduler and deleted
\* by the user (the only Message of the user), and its result, an Err, has
\* come after the reload: the task is gone, nothing was logged, the Error is
\* the last notification and running_tasks is empty.
C31_Witness ==
    /\ intents = 1
    /\ StoredActive.id \notin Ids(tasks)
    /\ StoredActive.id \notin Ids(StoredTasks)
    /\ nextLogId = 1
    /\ notifications = <<"Error">>
    /\ running_tasks = <<>>
    /\ ~Pending("execute_task")
    /\ ~Waiting("ExecuteTask")

\* the task id is in memory, active, and its next_run has passed
ActiveAndPassed(id) ==
    /\ id \in Ids(tasks)
    /\ TaskOf(tasks, id).is_active
    /\ TaskOf(tasks, id).next_run # None
    /\ TaskOf(tasks, id).next_run[1] <= now

\* C32: under fair ticks and fair delivery, a task that is active, not
\* running and past its next_run gets its id into running_tasks, unless it
\* stops being active or past its next_run first; this holds for every task,
\* whatever the other tasks do.
C32_DueTaskIsDispatched ==
    \A id \in Ids(InitRunTasks) :
        (ActiveAndPassed(id) /\ ~Contains(running_tasks, id))
            ~> (Contains(running_tasks, id) \/ ~ActiveAndPassed(id))

\* C32, witness: both tasks were due together and both are running.
C32_Witness ==
    /\ \A id \in Ids(InitRunTasks) :
           ActiveAndPassed(id) /\ Contains(running_tasks, id)
    /\ ~Waiting("ExecuteTask")

\* old held nothing, or new is old after at most `most` pushes at the back,
\* each push evicting at most one entry from the front, and only when the
\* cap is exceeded
KeptOrEvicted(old, new, most, cap) ==
    \/ old = <<>>
    \/ new = old
    \/ \E n \in 1..most : \E k \in 0..n :
           /\ n <= Len(new)
           /\ k <= Len(old)
           /\ k > 0 => Len(old) + n > cap
           /\ SubSeq(new, 1, Len(new) - n) = SubSeq(old, k + 1, Len(old))

\* C33: no step takes an entry out of the in-memory logs or changes one,
\* except the eviction from the front that comes with a push at the back; and
\* no write of logs.json loses an entry in any other way.
C33_LogsOnlyGrowOrEvict ==
    [][/\ KeptOrEvicted(logs, logs', 1, config.max_logs)
       /\ (logsDoc.state = "ok" /\ logsDoc'.state = "ok") =>
              KeptOrEvicted(logsDoc.content, logsDoc'.content, MaxExecs,
                            config.max_logs)]_vars

\* C34: once the stored task is out of tasks.json it does not come back into
\* it, and once it is out of memory as well it does not come back into memory.
C34_DeletedStaysDeleted ==
    [][(tasksDoc.state = "ok" /\ StoredActive.id \notin Ids(StoredTasks)) =>
           /\ tasksDoc'.state = "ok" => StoredActive.id \notin Ids(StoredTasks')
           /\ StoredActive.id \notin Ids(tasks) =>
                  StoredActive.id \notin Ids(tasks')]_vars

\* no future of the persistence layer of the tasks is in flight and none of
\* its results waits for update
TasksQuiescent ==
    /\ ~Pending("save_task") /\ ~Pending("delete_task") /\ ~Pending("load_tasks")
    /\ ~Waiting("TaskSaved") /\ ~Waiting("TaskDeleted") /\ ~Waiting("TasksLoaded")

\* C35: at quiescence the tasks in memory, without their last_output, are the
\* entries of tasks.json, an absent tasks.json counting as an empty one.
C35_MemoryEqualsDocument ==
    (TasksQuiescent /\ tasksDoc.state # "malformed") =>
        TasksToJson(tasks) = tasksDoc.content

\* no two entries of ts share an id
UniqueIds(ts) == \A i, j \in 1..Len(ts) : ts[i].id = ts[j].id => i = j

\* C36: no two tasks in memory and no two entries of tasks.json share an id;
\* a step that changes the tasks in memory either replaces them by the result
\* of a load or leaves every task's id as it was.
C36_IdsUniqueAndStable ==
    /\ [](UniqueIds(tasks) /\ UniqueIds(StoredTasks))
    /\ [][tasks' # tasks =>
              \/ \E m \in BagToSet(msgs) :
                     m.msg = "TasksLoaded" /\ tasks' = m.tasks
              \/ /\ Len(tasks') = Len(tasks)
                 /\ \A i \in 1..Len(tasks) : tasks'[i].id = tasks[i].id]_vars

\* C36, witness: the stored task and a created one are both in tasks.json
\* and in memory, and a save of the stored task, after it ran, has gone into
\* its entry.
C36_Witness ==
    /\ Len(tasks) = 2 /\ Len(StoredTasks) = 2
    /\ Ids(tasks) = {StoredActive.id, nextTaskId - 1}
    /\ Ids(StoredTasks) = Ids(tasks)
    /\ TaskOf(StoredTasks, StoredActive.id).last_run = Some(now)
    /\ TasksQuiescent

\* C37: an Ok result for a task that is no longer in memory takes the id out
\* of running_tasks and ends the execution; the tasks, the logs, the
\* notifications, the documents and the Messages in flight are as before and
\* no future is started.
C37_ResultOfDeletedTaskOnlyFreesId ==
    [][\A c \in BagToSet(cmds) : \A success \in BOOLEAN :
          (/\ c.op = "execute_task"
           /\ c.task.id \notin Ids(tasks)
           /\ TaskExecuted(c, ExecOk(success))) =>
              /\ \A tid \in 1..nextTaskId :
                     Contains(running_tasks', tid) <=>
                         (Contains(running_tasks, tid) /\ tid # c.task.id)
              /\ Len(running_tasks') = Len(running_tasks) - 1
              /\ InFlight' = InFlight - 1
              /\ ~Pending("save_task")' /\ ~Pending("save_logs")'
              /\ <<tasks, logs, nextLogId, notifications, config>>' =
                     <<tasks, logs, nextLogId, notifications, config>>
              /\ <<msgs, docVars>>' = <<msgs, docVars>>]_vars

\* C37, witness: the task of an execution in flight has gone from memory and
\* from tasks.json, its id is still in running_tasks, and update can take the
\* Ok result now.
C37_Witness ==
    \E c \in BagToSet(cmds) :
        /\ c.op = "execute_task"
        /\ c.task.id \notin Ids(tasks)
        /\ c.task.id \notin Ids(StoredTasks)
        /\ Contains(running_tasks, c.task.id)
        /\ ENABLED RuntimeIdle(TaskExecuted(c, ExecOk(TRUE)))

====
